---------------------------- MODULE Spec2Model ----------------------------
(***************************************************************************)
(* Model of embedded-cli (lib/src/embedded_cli.c): the receive ring        *)
(* buffer, the byte-processing loop, line splitting and dispatch, the      *)
(* in-place argument tokenizer and the token accessors.                    *)
(*                                                                         *)
(* Bytes are their ASCII codes, C strings are sequences of bytes (without  *)
(* the terminator), buffers are functions from 0-based indices to bytes.   *)
(***************************************************************************)
EXTENDS Integers, Sequences, FiniteSets

VARIABLES
    cli,           \* struct EmbeddedCli: which callbacks the owner has set
    impl,          \* struct EmbeddedCliImpl
    commands,      \* handler invocations made by parseCommand, oldest first
    ub,            \* TRUE once a write left the command buffer (undefined behaviour)
    output,        \* the bytes the last call that writes gave to writeChar
    sent,          \* every byte passed to embeddedCliReceiveChar, oldest first
    batchStart,    \* Len(sent) at the embeddedCliProcess call before the last one
    batchEnd,      \* Len(sent) at the last embeddedCliProcess call
    recovered,     \* the last embeddedCliProcess call found the overflow flag set
    overflowed,    \* some embeddedCliReceiveChar call so far lost its byte
    queue,         \* ring buffer test: bytes pushed and not yet popped
    fifoOp,        \* ring buffer test: the last fifoBufPush / fifoBufPop call
    args,          \* tokenizer test: the buffer handed to embeddedCliTokenizeArgs
    tokIn,         \* tokenizer test: the string the buffer held before the call
    tokCall,       \* tokenizer test: the last call made on the buffer
    requested,     \* every binding passed to embeddedCliAddBinding by the owner, oldest first
    addOk,         \* what each of these embeddedCliAddBinding calls returned
    producer,      \* two contexts: where embeddedCliReceiveChar stands, and its register
    consumer,      \* two contexts: where embeddedCliProcess stands, and its register
    flagsMeant,    \* two contexts: impl.flags if every flag update made had taken effect
    cfg,           \* construction: the EmbeddedCliConfig passed to embeddedCliNew
    block,         \* construction: the bytes the memory of the block holds, then what the last call returned and did to it
    history,       \* history test: struct CliHistory
    histCall,      \* history test: the last historyPut / historyGet call and what it returned
    screen,        \* terminal: the current line of the terminal that receives the output, and its cursor column
    pushed,        \* two contexts at the ring: the bytes whose fifoBufPush returned true, oldest first
    popped         \* two contexts at the ring: the bytes fifoBufPop returned, oldest first

vars == << cli, impl, commands, ub, output, sent, batchStart, batchEnd, recovered, overflowed,
           queue, fifoOp, args, tokIn, tokCall, requested, addOk,
           producer, consumer, flagsMeant,
           cfg, block,
           history, histCall,
           screen,
           pushed, popped >>

engineVars == << cli, impl, commands, ub, output >>
observerVars == << sent, batchStart, batchEnd, recovered, overflowed >>
fifoVars == << queue, fifoOp >>
tokVars == << args, tokIn, tokCall >>
bindVars == << requested, addOk >>
concVars == << producer, consumer, flagsMeant >>
memVars == << cfg, block >>
histVars == << history, histCall >>
termVars == << screen >>
ringVars == << pushed, popped >>

---------------------------------------------------------------------------
(* Bytes the code names *)

NUL == 0
BS == 8
TAB == 9
LF == 10
CR == 13
ESC == 27
SPACE == 32
LBRACKET == 91
DEL == 127

\* flags of EmbeddedCliImpl.flags, kept as the set of the bits that are set
CLI_FLAG_OVERFLOW == 1
CLI_FLAG_INIT_COMPLETE == 2
CLI_FLAG_ALLOCATED == 4
CLI_FLAG_ESCAPE_MODE == 8

IS_FLAG_SET(flags, flag) == flag \in flags
SET_FLAG(flags, flag) == flags \cup {flag}
UNSET_FLAG(flags, flag) == flags \ {flag}

\* a null pointer (pointers are offsets into a buffer) and a null string
NULLPTR == 0 - 1
NULLSTR == << 0 - 1 >>

---------------------------------------------------------------------------
(* Receive ring buffer: struct FifoBuf {buf, front, back, size} *)

fifoBufAvailable(buffer) ==
    IF buffer.back >= buffer.front
    THEN buffer.back - buffer.front
    ELSE buffer.size - buffer.front + buffer.back

\* the byte returned and the buffer afterwards
fifoBufPop(buffer) ==
    IF buffer.front # buffer.back
    THEN [a |-> buffer.buf[buffer.front],
          buffer |-> [buffer EXCEPT !.front = (buffer.front + 1) % buffer.size]]
    ELSE [a |-> NUL, buffer |-> buffer]

\* a faulty fifoBufPush that overwrites the oldest byte when the ring is full
fifoBufPushOverwrite(buffer, a) ==
    LET newBack == (buffer.back + 1) % buffer.size IN
    [ok |-> TRUE,
     buffer |-> [buffer EXCEPT !.buf[buffer.back] = a, !.back = newBack,
                               !.front = IF newBack = buffer.front
                                         THEN (buffer.front + 1) % buffer.size
                                         ELSE buffer.front]]

\* the result returned and the buffer afterwards
fifoBufPush(buffer, a) ==
    LET newBack == (buffer.back + 1) % buffer.size IN
    IF newBack # buffer.front
    THEN [ok |-> TRUE,
          buffer |-> [buffer EXCEPT !.buf[buffer.back] = a, !.back = newBack]]
    ELSE [ok |-> FALSE, buffer |-> buffer]

---------------------------------------------------------------------------
(* Memory handed to the tokenizer: buf (bytes by offset), wr and rd (the   *)
(* offsets written and read so far).  A char* is an offset into buf.       *)

LoadByte(m, i) == IF i \in DOMAIN m.buf THEN m.buf[i] ELSE NUL

Store(m, i, c) ==
    [m EXCEPT !.buf = IF i \in DOMAIN @ THEN [@ EXCEPT ![i] = c] ELSE @,
              !.wr = @ \cup {i}]

Touch(m, idx) == [m EXCEPT !.rd = @ \cup idx]

\* strlen(&buf[p])
RECURSIVE strlen(_, _)
strlen(buf, p) ==
    IF p \notin DOMAIN buf \/ buf[p] = NUL THEN 0 ELSE 1 + strlen(buf, p + 1)

\* the C string at &buf[p]
CStr(buf, p) == [k \in 1..strlen(buf, p) |-> buf[p + k - 1]]

\* memmove(&buf[dst], &buf[src], n)
memmove(m, dst, src, n) ==
    [buf |-> [k \in DOMAIN m.buf |->
                IF k >= dst /\ k < dst + n
                THEN LoadByte(m, k - dst + src) ELSE m.buf[k]],
     wr |-> m.wr \cup (dst..(dst + n - 1)),
     rd |-> m.rd \cup (src..(src + n - 1))]

\* strchr(separators, c) != NULL with separators = " ": strchr also finds
\* the terminator of separators, so the null byte counts as a separator
IsSeparator(c) == c = SPACE \/ c = NUL

\* first loop: replace all separators with a null byte, i = i .. len-1
RECURSIVE TokenizeReplace(_, _, _, _)
TokenizeReplace(m, p, i, len) ==
    IF i >= len THEN m
    ELSE LET r == Touch(m, {p + i}) IN
         TokenizeReplace(IF IsSeparator(r.buf[p + i]) THEN Store(r, p + i, NUL) ELSE r,
                         p, i + 1, len)

\* second loop: while (i > 0), from the end; gives the memory and
\* nextTokenStartIndex
RECURSIVE TokenizeCompress(_, _, _, _, _)
TokenizeCompress(m, p, i, nextTokenStartIndex, len) ==
    IF i <= 0 THEN [m |-> m, nextTokenStartIndex |-> nextTokenStartIndex]
    ELSE LET j == i - 1
             r == Touch(m, {p + j, p + j + 1})
             isSeparator == IsSeparator(r.buf[p + j])
         IN IF ~isSeparator /\ r.buf[p + j + 1] = NUL
            THEN IF nextTokenStartIndex # 0 /\ nextTokenStartIndex - j > 2
                 THEN TokenizeCompress(
                          memmove(r, p + j + 2, p + nextTokenStartIndex,
                                  len - nextTokenStartIndex + 1),
                          p, j, nextTokenStartIndex, len)
                 ELSE TokenizeCompress(r, p, j, nextTokenStartIndex, len)
            ELSE IF isSeparator /\ r.buf[p + j + 1] # NUL
                 THEN TokenizeCompress(r, p, j, j + 1, len)
                 ELSE TokenizeCompress(r, p, j, nextTokenStartIndex, len)

\* a faulty tokenizer that takes the terminator for a byte of the string, and
\* so needs two spare bytes after it
embeddedCliTokenizeArgsLong(m, p) ==
    IF p = NULLPTR THEN m
    ELSE LET len == strlen(m.buf, p) + 1
             m1 == Store(Touch(m, (p..(p + len))), p + len + 1, NUL)
             c == TokenizeCompress(TokenizeReplace(m1, p, 0, len), p, len, 0, len)
             m2 == Touch(c.m, {p})
         IN IF m2.buf[p] = NUL /\ c.nextTokenStartIndex > 0
            THEN memmove(m2, p, p + c.nextTokenStartIndex,
                         len - c.nextTokenStartIndex + 1)
            ELSE m2

\* void embeddedCliTokenizeArgs(char *args), args = &m.buf[p]
embeddedCliTokenizeArgs(m, p) ==
    IF p = NULLPTR THEN m
    ELSE LET len == strlen(m.buf, p)
             m1 == Store(Touch(m, (p..(p + len))), p + len + 1, NUL)
         IN IF len = 0 THEN m1
            ELSE LET c == TokenizeCompress(TokenizeReplace(m1, p, 0, len),
                                           p, len, 0, len)
                     m2 == Touch(c.m, {p})
                 IN IF m2.buf[p] = NUL /\ c.nextTokenStartIndex > 0
                    THEN memmove(m2, p, p + c.nextTokenStartIndex,
                                 len - c.nextTokenStartIndex + 1)
                    ELSE m2

\* the while (true) loop of embeddedCliGetToken: the index it stops at
RECURSIVE GetTokenScan(_, _, _, _, _)
GetTokenScan(buf, p, pos, i, tokenCount) ==
    IF tokenCount = pos THEN i
    ELSE IF buf[p + i] = NUL
         THEN IF buf[p + i + 1] = NUL THEN i
              ELSE GetTokenScan(buf, p, pos, i + 1, tokenCount + 1)
         ELSE GetTokenScan(buf, p, pos, i + 1, tokenCount)

\* a faulty embeddedCliGetToken that counts positions from 0
embeddedCliGetTokenFromZero(buf, p, pos) ==
    IF p = NULLPTR THEN NULLPTR
    ELSE LET i == GetTokenScan(buf, p, pos, 0, 0) IN
         IF buf[p + i] # NUL THEN p + i ELSE NULLPTR

\* const char *embeddedCliGetToken(const char *tokenizedStr, uint8_t pos):
\* the offset of the token, or NULLPTR
embeddedCliGetToken(buf, p, pos) ==
    IF p = NULLPTR \/ pos = 0 THEN NULLPTR
    ELSE LET i == GetTokenScan(buf, p, pos, 0, 1) IN
         IF buf[p + i] # NUL THEN p + i ELSE NULLPTR

\* the while (true) loop of embeddedCliGetTokenCount
RECURSIVE GetTokenCountScan(_, _, _, _)
GetTokenCountScan(buf, p, i, tokenCount) ==
    IF buf[p + i] = NUL
    THEN IF buf[p + i + 1] = NUL THEN tokenCount
         ELSE GetTokenCountScan(buf, p, i + 1, tokenCount + 1)
    ELSE GetTokenCountScan(buf, p, i + 1, tokenCount)

\* uint8_t embeddedCliGetTokenCount(const char *tokenizedStr)
embeddedCliGetTokenCount(buf, p) ==
    IF p = NULLPTR \/ buf[p] = NUL THEN 0
    ELSE GetTokenCountScan(buf, p, 0, 1) % 256

\* the for loop of embeddedCliFindToken, from i
RECURSIVE FindTokenScan(_, _, _, _, _)
FindTokenScan(buf, p, token, i, size) ==
    IF i >= size THEN 0
    ELSE IF CStr(buf, embeddedCliGetToken(buf, p, (i + 1) % 256)) = token
         THEN (i + 1) % 256
         ELSE FindTokenScan(buf, p, token, i + 1, size)

\* uint8_t embeddedCliFindToken(const char *tokenizedStr, const char *token)
embeddedCliFindToken(buf, p, token) ==
    IF p = NULLPTR \/ token = NULLSTR THEN 0
    ELSE FindTokenScan(buf, p, token, 0, embeddedCliGetTokenCount(buf, p))

---------------------------------------------------------------------------
(* The engine.  The handlers work on s = [cli, impl, commands, ub, out];   *)
(* out holds the bytes written to the output sink by the call so far.      *)

\* the strings the engine prints, as bytes

\* impl->invitation = "> "
invitation == << 62, SPACE >>

\* static const char *lineBreak = "\r\n"
lineBreak == << CR, LF >>

\* "Print list of commands", the help of the built-in binding
HelpText ==
    << 80, 114, 105, 110, 116, 32, 108, 105, 115, 116, 32, 111, 102, 32,
       99, 111, 109, 109, 97, 110, 100, 115 >>

\* "Help is not available"
HelpNotAvailable ==
    << 72, 101, 108, 112, 32, 105, 115, 32, 110, 111, 116, 32, 97, 118, 97,
       105, 108, 97, 98, 108, 101 >>

\* " * "
HelpItemPrefix ==
    << 32, 42, 32 >>

\* "Command \"help\" receives one or zero arguments"
HelpArgsNotice ==
    << 67, 111, 109, 109, 97, 110, 100, 32, 34, 104, 101, 108, 112, 34, 32,
       114, 101, 99, 101, 105, 118, 101, 115, 32, 111, 110, 101, 32, 111,
       114, 32, 122, 101, 114, 111, 32, 97, 114, 103, 117, 109, 101, 110,
       116, 115 >>

\* "Unknown command: \""
UnknownCommandPrefix ==
    << 85, 110, 107, 110, 111, 119, 110, 32, 99, 111, 109, 109, 97, 110,
       100, 58, 32, 34 >>

\* "\". Write \"help\" for a list of available commands"
UnknownCommandSuffix ==
    << 34, 46, 32, 87, 114, 105, 116, 101, 32, 34, 104, 101, 108, 112, 34,
       32, 102, 111, 114, 32, 97, 32, 108, 105, 115, 116, 32, 111, 102, 32,
       97, 118, 97, 105, 108, 97, 98, 108, 101, 32, 99, 111, 109, 109, 97,
       110, 100, 115 >>

\* cli->writeChar(cli, c); with no writeChar set the call is undefined behaviour
writeChar(s, c) ==
    IF s.cli.writeChar THEN [s EXCEPT !.out = Append(@, c)]
    ELSE [s EXCEPT !.ub = TRUE]

\* static void writeToOutput(EmbeddedCli *cli, const char *str)
writeToOutput(s, str) ==
    IF str = << >> THEN s
    ELSE IF s.cli.writeChar THEN [s EXCEPT !.out = @ \o str]
    ELSE [s EXCEPT !.ub = TRUE]

\* n calls of cli->writeChar(cli, ' ')
writeSpaces(s, n) == writeToOutput(s, [k \in 1..n |-> SPACE])

\* "help", the name of the built-in binding
HelpName == << 104, 101, 108, 112 >>

\* a binding table entry after memset(buf, 0, totalSize)
ZeroBinding ==
    [name |-> NULLSTR, help |-> NULLSTR, tokenizeArgs |-> FALSE, context |-> 0,
     binding |-> "NULL"]

\* a faulty embeddedCliAddBinding that refuses the binding that would fill
\* the last slot
embeddedCliAddBindingNoLastSlot(im, binding) ==
    IF im.bindingsCount + 1 >= im.maxBindingsCount
    THEN [ok |-> FALSE, impl |-> im]
    ELSE [ok |-> TRUE,
          impl |-> [im EXCEPT !.bindings[im.bindingsCount] = binding,
                              !.bindingsCount = @ + 1]]

\* bool embeddedCliAddBinding(EmbeddedCli *cli, CliCommandBinding binding):
\* the result returned and impl afterwards
embeddedCliAddBinding(im, binding) ==
    IF im.bindingsCount = im.maxBindingsCount
    THEN [ok |-> FALSE, impl |-> im]
    ELSE [ok |-> TRUE,
          impl |-> [im EXCEPT !.bindings[im.bindingsCount] = binding,
                              !.bindingsCount = @ + 1]]

\* static void initInternalBindings(EmbeddedCli *cli)
initInternalBindings(im) ==
    embeddedCliAddBinding(im,
        [name |-> HelpName, help |-> HelpText, tokenizeArgs |-> TRUE,
         context |-> 0, binding |-> "onHelp"]).impl

cliInternalBindingCount == 1

\* the largest uint8_t
UINT8_MAX == 255

\* the largest uint16_t
UINT16_MAX == 65535

\* (uint16_t) x
Uint16(x) == x % (UINT16_MAX + 1)

\* EmbeddedCli *embeddedCliNew(EmbeddedCliConfig *config): impl of the handle
\* returned, for a block that is large enough and a required size that
\* covers the control structures (memset has zeroed every field that is not
\* assigned).  bindingCount is a uint16_t; the block is malloc'ed when
\* config->cliBuffer is NULL, and only then is CLI_FLAG_ALLOCATED set
embeddedCliNew(config) ==
    LET bindingCount == Uint16(config.maxBindingCount + cliInternalBindingCount)
        allocated == config.cliBuffer = "NULL"
    IN
    initInternalBindings(
        [rxBuffer |-> [buf |-> [i \in 0..(config.rxBufferSize - 1) |-> NUL],
                       front |-> 0, back |-> 0, size |-> config.rxBufferSize],
         cmdBuffer |-> [i \in 0..(config.cmdBufferSize - 1) |-> NUL],
         cmdSize |-> 0,
         cmdMaxSize |-> config.cmdBufferSize,
         bindings |-> [i \in 0..(bindingCount - 1) |-> ZeroBinding],
         bindingsFlags |-> [i \in 0..(bindingCount - 1) |-> {}],
         bindingsCount |-> 0,
         maxBindingsCount |-> Uint16(config.maxBindingCount + cliInternalBindingCount),
         lastChar |-> NUL,
         inputLineLength |-> 0,
         flags |-> IF allocated THEN SET_FLAG({}, CLI_FLAG_ALLOCATED) ELSE {}])

\* a store to impl->cmdBuffer[i]; outside the buffer it is undefined behaviour
StoreCmd(s, i, c) ==
    IF i >= 0 /\ i < s.impl.cmdMaxSize
    THEN [s EXCEPT !.impl.cmdBuffer[i] = c]
    ELSE [s EXCEPT !.ub = TRUE]

isControlChar(c) == c = CR \/ c = LF \/ c = BS \/ c = TAB \/ c = DEL

isDisplayableChar(c) == c >= 32 /\ c <= 126

\* a faulty onEscapedInput that takes every printable byte for the final
\* byte of the sequence
onEscapedInputAnyPrintable(s, c) ==
    IF c >= 32 /\ c <= 126
    THEN [s EXCEPT !.impl.flags = UNSET_FLAG(@, CLI_FLAG_ESCAPE_MODE)]
    ELSE s

\* a faulty onEscapedInput that takes any byte for the final byte of the
\* sequence
onEscapedInputAnyByte(s, c) ==
    [s EXCEPT !.impl.flags = UNSET_FLAG(@, CLI_FLAG_ESCAPE_MODE)]

\* static void onEscapedInput(EmbeddedCli *cli, char c)
onEscapedInput(s, c) ==
    IF c >= 64 /\ c <= 126
    THEN [s EXCEPT !.impl.flags = UNSET_FLAG(@, CLI_FLAG_ESCAPE_MODE)]
    ELSE s

\* static void onCharInput(EmbeddedCli *cli, char c)
onCharInput(s, c) ==
    IF s.impl.cmdSize + 2 >= s.impl.cmdMaxSize THEN s
    ELSE LET s1 == [StoreCmd(s, s.impl.cmdSize, c) EXCEPT !.impl.cmdSize = @ + 1]
         IN IF s1.cli.writeChar THEN writeChar(s1, c) ELSE s1

\* static void clearCurrentLine(EmbeddedCli *cli)
clearCurrentLine(s) ==
    LET len == s.impl.inputLineLength + Len(invitation) IN
    [writeChar(writeSpaces(writeChar(s, CR), len), CR)
        EXCEPT !.impl.inputLineLength = 0]

\* flag of impl->bindingsFlags[i], kept as the set of the bits that are set
BINDING_FLAG_AUTOCOMPLETE == 1

\* the check "prefix[j] != name[j]" never hits for j < prefixLen
\* a faulty candidate check that compares the first byte only
IsCandidateFirstByte(prefix, name) ==
    \A j \in 1..Len(prefix) : j <= Len(name) /\ (j = 1 => prefix[j] = name[j])

IsCandidate(prefix, name) ==
    \A j \in 1..Len(prefix) : j <= Len(name) /\ prefix[j] = name[j]

\* a faulty shared length that is the length of the shortest candidate,
\* without a comparison of the names
SharedLenShortest(firstCandidate, name, j, autocompletedLen) == autocompletedLen

\* the loop "for (j = impl->cmdSize; j < cmd.autocompletedLen; ++j)" of
\* getAutocompletedCommand: the autocompletedLen it leaves
RECURSIVE SharedLen(_, _, _, _)
SharedLen(firstCandidate, name, j, autocompletedLen) ==
    IF j >= autocompletedLen THEN autocompletedLen
    ELSE IF firstCandidate[j + 1] # name[j + 1] THEN j
         ELSE SharedLen(firstCandidate, name, j + 1, autocompletedLen)

\* the loop over the bindings of getAutocompletedCommand, from binding i
RECURSIVE AutocompleteScan(_, _, _, _, _)
AutocompleteScan(im, prefix, i, flags, cmd) ==
    IF i >= im.bindingsCount THEN [cmd |-> cmd, bindingsFlags |-> flags]
    ELSE LET name == im.bindings[i].name
             len == Len(name)
             unset == [flags EXCEPT ![i] = @ \ {BINDING_FLAG_AUTOCOMPLETE}]
         IN IF len < Len(prefix) \/ ~IsCandidate(prefix, name)
            THEN AutocompleteScan(im, prefix, i + 1, unset, cmd)
            ELSE LET set == [unset EXCEPT ![i] = @ \cup {BINDING_FLAG_AUTOCOMPLETE}]
                     c1 == [cmd EXCEPT
                              !.autocompletedLen =
                                  IF cmd.candidateCount = 0 \/ len < @ THEN len ELSE @,
                              !.candidateCount = @ + 1]
                 IN IF c1.candidateCount = 1
                    THEN AutocompleteScan(im, prefix, i + 1, set,
                                          [c1 EXCEPT !.firstCandidate = name])
                    ELSE AutocompleteScan(im, prefix, i + 1, set,
                             [c1 EXCEPT !.autocompletedLen =
                                 SharedLen(c1.firstCandidate, name, im.cmdSize, @)])

\* static AutocompletedCommand getAutocompletedCommand(cli, prefix): the
\* result and the per-binding flags it leaves
getAutocompletedCommand(im, prefix) ==
    LET cmd == [firstCandidate |-> NULLSTR, autocompletedLen |-> 0,
                candidateCount |-> 0]
    IN IF im.bindingsCount = 0 \/ Len(prefix) = 0
       THEN [cmd |-> cmd, bindingsFlags |-> im.bindingsFlags]
       ELSE AutocompleteScan(im, prefix, 0, im.bindingsFlags, cmd)

\* a faulty preview that also writes the previewed bytes into cmdBuffer and
\* counts them in cmdSize
printLiveAutocompletionCommit(s) ==
    LET s1 == StoreCmd(s, s.impl.cmdSize, NUL)
        r == getAutocompletedCommand(s1.impl, CStr(s1.impl.cmdBuffer, 0))
        s2 == [s1 EXCEPT !.impl.bindingsFlags = r.bindingsFlags]
        cmd == r.cmd
    IN IF cmd.candidateCount = 0 \/ cmd.autocompletedLen + 1 >= s2.impl.cmdMaxSize
       THEN [s2 EXCEPT !.impl.inputLineLength = s2.impl.cmdSize]
       ELSE LET s3 == writeToOutput(s2, SubSeq(cmd.firstCandidate, s2.impl.cmdSize + 1,
                                               cmd.autocompletedLen))
                s4 == [s3 EXCEPT
                          !.impl.cmdBuffer =
                              [k \in DOMAIN @ |->
                                  IF k < cmd.autocompletedLen
                                  THEN cmd.firstCandidate[k + 1]
                                  ELSE IF k = cmd.autocompletedLen THEN NUL ELSE @[k]],
                          !.impl.cmdSize = cmd.autocompletedLen,
                          !.impl.inputLineLength = cmd.autocompletedLen]
            IN writeToOutput(writeToOutput(writeChar(s4, CR), invitation),
                             CStr(s4.impl.cmdBuffer, 0))

\* static void printLiveAutocompletion(EmbeddedCli *cli)
printLiveAutocompletion(s) ==
    LET s1 == StoreCmd(s, s.impl.cmdSize, NUL)
        r == getAutocompletedCommand(s1.impl, CStr(s1.impl.cmdBuffer, 0))
        s2 == [s1 EXCEPT !.impl.bindingsFlags = r.bindingsFlags]
        cmd == r.cmd
    IN IF cmd.candidateCount = 0
       THEN [(IF s2.impl.inputLineLength > s2.impl.cmdSize
              THEN writeToOutput(writeToOutput(clearCurrentLine(s2), invitation),
                                 CStr(s2.impl.cmdBuffer, 0))
              ELSE s2)
                EXCEPT !.impl.inputLineLength = s2.impl.cmdSize]
       ELSE LET s3 == writeToOutput(s2, SubSeq(cmd.firstCandidate, s2.impl.cmdSize + 1,
                                               cmd.autocompletedLen))
                s4 == writeSpaces(s3, s2.impl.inputLineLength - cmd.autocompletedLen)
                s5 == writeChar([s4 EXCEPT !.impl.inputLineLength = cmd.autocompletedLen],
                                CR)
            IN writeToOutput(writeToOutput(s5, invitation), CStr(s5.impl.cmdBuffer, 0))

\* the loops "for (i = impl->cmdSize; i < cmd.autocompletedLen; ++i)
\* impl->cmdBuffer[i] = cmd.firstCandidate[i]" of onAutocompleteRequest
RECURSIVE CopyCandidate(_, _, _, _)
CopyCandidate(s, firstCandidate, i, autocompletedLen) ==
    IF i >= autocompletedLen THEN s
    ELSE CopyCandidate(StoreCmd(writeChar(s, firstCandidate[i + 1]), i,
                                firstCandidate[i + 1]),
                       firstCandidate, i + 1, autocompletedLen)

\* a faulty loop that prints the names of all the bindings
RECURSIVE PrintAllBindings(_, _)
PrintAllBindings(s, i) ==
    IF i >= s.impl.bindingsCount THEN s
    ELSE PrintAllBindings(
             writeToOutput(writeToOutput(s, s.impl.bindings[i].name), lineBreak),
             i + 1)

\* the loop of onAutocompleteRequest that prints the name of every binding
\* whose autocomplete flag is set, from binding i
RECURSIVE PrintCandidates(_, _)
PrintCandidates(s, i) ==
    IF i >= s.impl.bindingsCount THEN s
    ELSE PrintCandidates(
             IF IS_FLAG_SET(s.impl.bindingsFlags[i], BINDING_FLAG_AUTOCOMPLETE)
             THEN writeToOutput(writeToOutput(s, s.impl.bindings[i].name), lineBreak)
             ELSE s,
             i + 1)

\* static void onAutocompleteRequest(EmbeddedCli *cli)
onAutocompleteRequest(s) ==
    LET s1 == StoreCmd(s, s.impl.cmdSize, NUL)
        r == getAutocompletedCommand(s1.impl, CStr(s1.impl.cmdBuffer, 0))
        cmd == r.cmd
        s2 == [s1 EXCEPT !.impl.bindingsFlags = r.bindingsFlags]
    IN IF cmd.candidateCount = 0 THEN s2
       ELSE IF cmd.candidateCount = 1
       THEN [StoreCmd(writeChar(CopyCandidate(s2, cmd.firstCandidate,
                                              s2.impl.cmdSize,
                                              cmd.autocompletedLen), SPACE),
                      cmd.autocompletedLen, SPACE)
                EXCEPT !.impl.cmdSize = cmd.autocompletedLen + 1,
                       !.impl.inputLineLength = cmd.autocompletedLen + 1]
       ELSE IF cmd.autocompletedLen = s2.impl.cmdSize
       THEN LET s3 == StoreCmd(PrintCandidates(clearCurrentLine(s2), 0),
                               s2.impl.cmdSize, NUL)
            IN [writeToOutput(writeToOutput(s3, invitation),
                              CStr(s3.impl.cmdBuffer, 0))
                   EXCEPT !.impl.inputLineLength = s2.impl.cmdSize]
       ELSE [CopyCandidate(s2, cmd.firstCandidate, s2.impl.cmdSize,
                           cmd.autocompletedLen)
                EXCEPT !.impl.cmdSize = cmd.autocompletedLen,
                       !.impl.inputLineLength = cmd.autocompletedLen]

\* a load of impl->cmdBuffer[i]
LoadCmd(s, i) ==
    IF i \in DOMAIN s.impl.cmdBuffer THEN s.impl.cmdBuffer[i] ELSE NUL

\* a faulty loop of parseCommand that starts the arguments right after the
\* first space that follows the name
RECURSIVE ParseScanFirstSpace(_, _, _, _, _)
ParseScanFirstSpace(s, i, cmdName, cmdArgs, nameFinished) ==
    IF i >= s.impl.cmdSize
    THEN [s |-> s, cmdName |-> cmdName, cmdArgs |-> cmdArgs]
    ELSE LET c == LoadCmd(s, i) IN
         IF cmdName = NULLPTR
         THEN ParseScanFirstSpace(IF c = SPACE THEN StoreCmd(s, i, NUL) ELSE s, i + 1,
                                  IF c = SPACE THEN cmdName ELSE i, cmdArgs, nameFinished)
         ELSE IF c = SPACE /\ ~nameFinished
         THEN ParseScanFirstSpace(StoreCmd(s, i, NUL), i + 1, cmdName,
                                  IF i + 1 < s.impl.cmdSize THEN i + 1 ELSE cmdArgs, TRUE)
         ELSE ParseScanFirstSpace(s, i + 1, cmdName, cmdArgs, nameFinished)

\* the loop of parseCommand that finds the name and the arguments, from
\* byte i: the state, cmdName and cmdArgs it leaves
RECURSIVE ParseScan(_, _, _, _, _)
ParseScan(s, i, cmdName, cmdArgs, nameFinished) ==
    IF i >= s.impl.cmdSize
    THEN [s |-> s, cmdName |-> cmdName, cmdArgs |-> cmdArgs]
    ELSE LET c == LoadCmd(s, i) IN
         IF c = SPACE
         THEN ParseScan(IF cmdArgs = NULLPTR THEN StoreCmd(s, i, NUL) ELSE s,
                        i + 1, cmdName, cmdArgs,
                        nameFinished \/ cmdName # NULLPTR)
         ELSE IF cmdName = NULLPTR
         THEN ParseScan(s, i + 1, i, cmdArgs, nameFinished)
         ELSE IF cmdArgs = NULLPTR /\ nameFinished
         THEN ParseScan(s, i + 1, cmdName, i, nameFinished)
         ELSE ParseScan(s, i + 1, cmdName, cmdArgs, nameFinished)

\* a faulty loop over the bindings that takes the last binding of the name
RECURSIVE FindBindingLast(_, _, _)
FindBindingLast(im, name, i) ==
    LET later == IF i >= im.bindingsCount THEN NULLPTR
                 ELSE FindBindingLast(im, name, i + 1)
    IN IF i >= im.bindingsCount THEN NULLPTR
       ELSE IF later # NULLPTR THEN later
       ELSE IF im.bindings[i].name = name THEN i
       ELSE NULLPTR

\* a faulty loop over the bindings that passes over a binding without a
\* handler and goes on to a later binding of the same name
RECURSIVE FindBindingWithHandler(_, _, _)
FindBindingWithHandler(im, name, i) ==
    IF i >= im.bindingsCount THEN NULLPTR
    ELSE IF im.bindings[i].name = name /\ im.bindings[i].binding # "NULL" THEN i
         ELSE FindBindingWithHandler(im, name, i + 1)

\* the loop of parseCommand over the bindings: the first binding whose name
\* is the given one, or NULLPTR
RECURSIVE FindBinding(_, _, _)
FindBinding(im, name, i) ==
    IF i >= im.bindingsCount THEN NULLPTR
    ELSE IF im.bindings[i].name = name THEN i
         ELSE FindBinding(im, name, i + 1)

\* embeddedCliTokenizeArgs(cmdArgs) on the command buffer
TokenizeCmdArgs(s, cmdArgs) ==
    LET m == embeddedCliTokenizeArgs(
                 [buf |-> s.impl.cmdBuffer, wr |-> {}, rd |-> {}], cmdArgs)
    IN [s EXCEPT !.impl.cmdBuffer = m.buf,
                 !.ub = @ \/ \E i \in m.wr \cup m.rd : i >= s.impl.cmdMaxSize]

\* what a handler is given: the name and the string at cmdArgs
Invocation(s, handler, i, cmdName, cmdArgs) ==
    [handler |-> handler, binding |-> i,
     name |-> CStr(s.impl.cmdBuffer, cmdName),
     args |-> IF cmdArgs = NULLPTR THEN NULLSTR
              ELSE CStr(s.impl.cmdBuffer, cmdArgs)]

\* the tokens of the token list at cmdArgs, first to last
TokenList(buf, cmdArgs) ==
    [k \in 1..embeddedCliGetTokenCount(buf, cmdArgs) |->
        CStr(buf, embeddedCliGetToken(buf, cmdArgs, k))]

\* what the handler of binding i is given: the string at cmdArgs (after
\* embeddedCliTokenizeArgs its tokens) and the context of the binding
BindingInvocation(s, i, cmdName, cmdArgs) ==
    [handler |-> s.impl.bindings[i].binding, binding |-> i,
     name |-> CStr(s.impl.cmdBuffer, cmdName),
     args |-> IF cmdArgs = NULLPTR THEN NULLSTR
              ELSE CStr(s.impl.cmdBuffer, cmdArgs),
     tokens |-> IF s.impl.bindings[i].tokenizeArgs /\ ~s.ub
                THEN TokenList(s.impl.cmdBuffer, cmdArgs) ELSE << >>,
     context |-> s.impl.bindings[i].context]

\* static void onUnknownCommand(EmbeddedCli *cli, const char *name)
onUnknownCommand(s, name) ==
    writeToOutput(writeToOutput(writeToOutput(writeToOutput(s,
        UnknownCommandPrefix), name), UnknownCommandSuffix), lineBreak)

\* the loop of onHelp over all the bindings when no token is given
RECURSIVE HelpList(_, _)
HelpList(s, i) ==
    IF i >= s.impl.bindingsCount THEN s
    ELSE LET b == s.impl.bindings[i]
             s1 == writeToOutput(writeToOutput(writeToOutput(s,
                       HelpItemPrefix), b.name), lineBreak)
         IN HelpList(IF b.help # NULLSTR
                     THEN writeToOutput(writeToOutput(writeChar(s1, TAB), b.help),
                                        lineBreak)
                     ELSE s1,
                     i + 1)

\* the loop of onHelp that looks for the binding of a name: its index, or
\* NULLPTR when not found
RECURSIVE HelpFind(_, _, _)
HelpFind(im, cmdName, i) ==
    IF i >= im.bindingsCount THEN NULLPTR
    ELSE IF im.bindings[i].name = cmdName THEN i
         ELSE HelpFind(im, cmdName, i + 1)

\* static void onHelp(EmbeddedCli *cli, char *tokens, void *context); after
\* undefined behaviour nothing is said about what it prints
onHelp(s, tokens) ==
    IF s.ub THEN s
    ELSE IF s.impl.bindingsCount = 0
    THEN writeToOutput(writeToOutput(s, HelpNotAvailable), lineBreak)
    ELSE LET tokenCount == embeddedCliGetTokenCount(s.impl.cmdBuffer, tokens) IN
         IF tokenCount = 0 THEN HelpList(s, 0)
         ELSE IF tokenCount = 1
         THEN LET cmdName == CStr(s.impl.cmdBuffer,
                                  embeddedCliGetToken(s.impl.cmdBuffer, tokens, 1))
                  i == HelpFind(s.impl, cmdName, 0)
              IN IF i # NULLPTR /\ s.impl.bindings[i].help # NULLSTR
                 THEN writeToOutput(writeToOutput(writeChar(writeToOutput(
                          writeToOutput(writeToOutput(s, HelpItemPrefix), cmdName),
                          lineBreak), TAB), s.impl.bindings[i].help), lineBreak)
                 ELSE IF i # NULLPTR
                 THEN writeToOutput(writeToOutput(s, HelpNotAvailable), lineBreak)
                 ELSE onUnknownCommand(s, cmdName)
         ELSE writeToOutput(writeToOutput(s, HelpArgsNotice), lineBreak)

\* static void parseCommand(EmbeddedCli *cli)
parseCommand(s) ==
    LET p == ParseScan(s, 0, NULLPTR, NULLPTR, FALSE)
        s1 == StoreCmd(StoreCmd(p.s, p.s.impl.cmdSize, NUL),
                       p.s.impl.cmdSize + 1, NUL)
        i == FindBinding(s1.impl, CStr(s1.impl.cmdBuffer, p.cmdName), 0)
    IN IF p.cmdName = NULLPTR THEN s1
       ELSE IF i # NULLPTR /\ s1.impl.bindings[i].binding # "NULL"
       THEN LET s2 == IF s1.impl.bindings[i].tokenizeArgs
                      THEN TokenizeCmdArgs(s1, p.cmdArgs) ELSE s1
                s3 == [s2 EXCEPT !.commands =
                          Append(@, BindingInvocation(s2, i, p.cmdName, p.cmdArgs))]
            IN IF s1.impl.bindings[i].binding = "onHelp"
               THEN onHelp(s3, p.cmdArgs) ELSE s3
       ELSE IF s1.cli.onCommand
       THEN [s1 EXCEPT !.commands =
                Append(@, Invocation(s1, "onCommand", NULLPTR, p.cmdName,
                                     p.cmdArgs))]
       ELSE onUnknownCommand(s1, CStr(s1.impl.cmdBuffer, p.cmdName))

\* static void onControlInput(EmbeddedCli *cli, char c)
onControlInput(s, c) ==
    IF (s.impl.lastChar = CR /\ c = LF) \/ (s.impl.lastChar = LF /\ c = CR)
    THEN s
    ELSE IF c = CR \/ c = LF
    THEN LET s1 == writeToOutput(s, lineBreak)
             s2 == IF s1.impl.cmdSize > 0 THEN parseCommand(s1) ELSE s1
         IN writeToOutput([s2 EXCEPT !.impl.cmdSize = 0,
                                     !.impl.inputLineLength = 0], invitation)
    ELSE IF (c = BS \/ c = DEL) /\ s.impl.cmdSize > 0
    THEN [writeChar(writeChar(writeChar(s, BS), SPACE), BS)
             EXCEPT !.impl.cmdSize = @ - 1]
    ELSE IF c = TAB THEN onAutocompleteRequest(s)
    ELSE s

\* the body of the while loop of embeddedCliProcess for the popped byte c
ProcessChar(s, c) ==
    LET s1 == IF IS_FLAG_SET(s.impl.flags, CLI_FLAG_ESCAPE_MODE)
              THEN onEscapedInput(s, c)
              ELSE IF s.impl.lastChar = ESC /\ c = LBRACKET
              THEN [s EXCEPT !.impl.flags = SET_FLAG(@, CLI_FLAG_ESCAPE_MODE)]
              ELSE IF isControlChar(c) THEN onControlInput(s, c)
              ELSE IF isDisplayableChar(c) THEN onCharInput(s, c)
              ELSE s
    IN [printLiveAutocompletion(s1) EXCEPT !.impl.lastChar = c]

\* a faulty loop of embeddedCliProcess that returns after the first command
\* it dispatches and leaves the rest in the ring
RECURSIVE ProcessLoopOneCommand(_)
ProcessLoopOneCommand(s) ==
    IF fifoBufAvailable(s.impl.rxBuffer) = 0 THEN s
    ELSE LET r == fifoBufPop(s.impl.rxBuffer)
             s1 == ProcessChar([s EXCEPT !.impl.rxBuffer = r.buffer], r.a)
         IN IF Len(s1.commands) > Len(s.commands) THEN s1
            ELSE ProcessLoopOneCommand(s1)

\* while (fifoBufAvailable(&impl->rxBuffer)) { ... }
RECURSIVE ProcessLoop(_)
ProcessLoop(s) ==
    IF fifoBufAvailable(s.impl.rxBuffer) = 0 THEN s
    ELSE LET r == fifoBufPop(s.impl.rxBuffer) IN
         ProcessLoop(ProcessChar([s EXCEPT !.impl.rxBuffer = r.buffer], r.a))

\* a faulty end of embeddedCliProcess that discards the unfinished command
\* at every call
DiscardAlways(s) ==
    [s EXCEPT !.impl.cmdSize = 0,
              !.impl.flags = UNSET_FLAG(@, CLI_FLAG_OVERFLOW)]

\* a faulty end of embeddedCliProcess that clears the overflow flag and keeps
\* the unfinished command
ClearOverflowOnly(s) ==
    [s EXCEPT !.impl.flags = UNSET_FLAG(@, CLI_FLAG_OVERFLOW)]

\* the end of embeddedCliProcess: discard unfinished command if overflow
\* happened
DiscardOnOverflow(s) ==
    IF IS_FLAG_SET(s.impl.flags, CLI_FLAG_OVERFLOW)
    THEN [s EXCEPT !.impl.cmdSize = 0,
                   !.impl.flags = UNSET_FLAG(@, CLI_FLAG_OVERFLOW)]
    ELSE s

\* void embeddedCliProcess(EmbeddedCli *cli), on s
Process(s) ==
    DiscardOnOverflow(ProcessLoop(
        IF ~IS_FLAG_SET(s.impl.flags, CLI_FLAG_INIT_COMPLETE)
        THEN writeToOutput(
                 [s EXCEPT !.impl.flags = SET_FLAG(@, CLI_FLAG_INIT_COMPLETE)],
                 invitation)
        ELSE s))

\* void embeddedCliPrint(EmbeddedCli *cli, const char *string), on s
embeddedCliPrint(s, string) ==
    LET s1 == writeToOutput(writeToOutput(clearCurrentLine(s), string), lineBreak)
        s2 == StoreCmd(s1, s1.impl.cmdSize, NUL)
        s3 == writeToOutput(writeToOutput(s2, invitation), CStr(s2.impl.cmdBuffer, 0))
    IN printLiveAutocompletion([s3 EXCEPT !.impl.inputLineLength = s3.impl.cmdSize])

\* void embeddedCliReceiveChar(EmbeddedCli *cli, char c), on impl
ReceiveChar(im, c) ==
    LET r == fifoBufPush(im.rxBuffer, c) IN
    IF ~r.ok THEN [im EXCEPT !.flags = SET_FLAG(@, CLI_FLAG_OVERFLOW)]
    ELSE [im EXCEPT !.rxBuffer = r.buffer]

---------------------------------------------------------------------------
(* Actions of the engine: the owner's calls *)

\* the state right after embeddedCliNew(config), with the owner's callbacks set
EngineInit(config) ==
    /\ cli = [writeChar |-> TRUE, onCommand |-> TRUE]
    /\ impl = embeddedCliNew(config)
    /\ commands = << >>
    /\ ub = FALSE
    /\ output = << >>
    /\ sent = << >>
    /\ batchStart = 0
    /\ batchEnd = 0
    /\ recovered = FALSE
    /\ overflowed = FALSE
    /\ requested = << >>
    /\ addOk = << >>

\* each of the two entry points is called and runs to its end before the
\* other is called
ConcIdle ==
    /\ producer = [pc |-> "idle"]
    /\ consumer = [pc |-> "idle"]
    /\ flagsMeant = {}

\* no embeddedCliNew call is being examined
MemIdle == cfg = [cliBuffer |-> "none"] /\ block = [call |-> "none"]

\* no terminal is watched
TermIdle == screen = [line |-> << >>, col |-> 0]

\* the ring is not watched
RingIdle == pushed = << >> /\ popped = << >>

\* the history test is not running
HistIdle ==
    /\ history = [buf |-> << >>, bufferSize |-> 0, itemsCount |-> 0]
    /\ histCall = [fn |-> "none"]

\* the ring buffer and tokenizer tests are not running
FifoIdle == queue = << >> /\ fifoOp = [op |-> "none"]
TokIdle == args = [buf |-> << >>, wr |-> {}, rd |-> {}] /\ tokIn = << >>
              /\ tokCall = [fn |-> "none"]

\* embeddedCliReceiveChar(cli, c)
embeddedCliReceiveChar(c) ==
    /\ ~ub
    /\ impl' = ReceiveChar(impl, c)
    /\ sent' = Append(sent, c)
    /\ overflowed' = (overflowed \/ ~fifoBufPush(impl.rxBuffer, c).ok)
    /\ UNCHANGED << cli, commands, ub, output, batchStart, batchEnd, recovered,
                    fifoVars, tokVars, bindVars, concVars, memVars, histVars, termVars, ringVars >>

\* embeddedCliProcess(cli)
embeddedCliProcess ==
    /\ ~ub
    /\ LET s == Process([cli |-> cli, impl |-> impl, commands |-> commands,
                         ub |-> ub, out |-> << >>])
       IN impl' = s.impl /\ commands' = s.commands /\ ub' = s.ub
          /\ output' = s.out
    /\ batchStart' = batchEnd
    /\ batchEnd' = Len(sent)
    /\ recovered' = IS_FLAG_SET(impl.flags, CLI_FLAG_OVERFLOW)
    /\ UNCHANGED << cli, sent, overflowed, fifoVars, tokVars, bindVars, concVars,
                    memVars, histVars, termVars, ringVars >>

---------------------------------------------------------------------------
(* Line-oriented input: a letter, spaces and line terminators, with the    *)
(* receive and command buffers of one size, as in the default config       *)

LineBufferSize == 6
MaxSent == 6

LineBytes == {97, SPACE, CR, LF}

LineConfig ==
    [rxBufferSize |-> LineBufferSize, cmdBufferSize |-> LineBufferSize,
     maxBindingCount |-> 0,
     cliBuffer |-> "NULL"]

Init ==
    /\ EngineInit(LineConfig)
    /\ FifoIdle
    /\ TokIdle
    /\ ConcIdle
    /\ MemIdle
    /\ HistIdle
    /\ TermIdle
    /\ RingIdle

Next ==
    \/ \E c \in LineBytes : Len(sent) < MaxSent /\ embeddedCliReceiveChar(c)
    \/ embeddedCliProcess

Spec == Init /\ [][Next]_vars

---------------------------------------------------------------------------
(* Flooded input: any bytes, escape sequences included, into a small       *)
(* receive buffer                                                          *)

FloodRxSize == 4
FloodCmdSize == 5
MaxFloodSent == 6

FloodBytes == {97, CR, ESC, LBRACKET}

FloodConfig ==
    [rxBufferSize |-> FloodRxSize, cmdBufferSize |-> FloodCmdSize,
     maxBindingCount |-> 0,
     cliBuffer |-> "NULL"]

InitFlood ==
    /\ EngineInit(FloodConfig)
    /\ FifoIdle
    /\ TokIdle
    /\ ConcIdle
    /\ MemIdle
    /\ HistIdle
    /\ TermIdle
    /\ RingIdle

NextFlood ==
    \/ \E c \in FloodBytes : Len(sent) < MaxFloodSent /\ embeddedCliReceiveChar(c)
    \/ embeddedCliProcess

SpecFlood == InitFlood /\ [][NextFlood]_vars

---------------------------------------------------------------------------
(* Line editing: printable bytes, backspace, TAB, terminators and escape   *)
(* sequences, with user bindings registered by the owner                   *)

EditRxSize == 5
EditCmdSize == 6
MaxEditSent == 4
MaxEditBindings == 1

EditBytes == {104, 101, BS, TAB, CR, ESC, LBRACKET}

\* "he", "hi" and "help2"
EditNames == {<< 104, 101 >>, << 104, 105 >>, << 104, 101, 108, 112, 50 >>}

EditConfig ==
    [rxBufferSize |-> EditRxSize, cmdBufferSize |-> EditCmdSize,
     maxBindingCount |-> MaxEditBindings,
     cliBuffer |-> "NULL"]

\* embeddedCliAddBinding(cli, {name, NULL, false, NULL, handler})
AddBinding(name) ==
    /\ ~ub
    /\ impl' = embeddedCliAddBinding(impl,
                   [name |-> name, help |-> NULLSTR, tokenizeArgs |-> FALSE,
                    context |-> 0, binding |-> "user"]).impl
    /\ impl' # impl
    /\ requested' = Append(requested,
                       [name |-> name, help |-> NULLSTR, tokenizeArgs |-> FALSE,
                        context |-> 0, binding |-> "user"])
    /\ addOk' = Append(addOk, TRUE)
    /\ UNCHANGED << cli, commands, ub, output, observerVars, fifoVars, tokVars,
                    concVars, memVars, histVars, termVars, ringVars >>

InitEdit ==
    /\ EngineInit(EditConfig)
    /\ FifoIdle
    /\ TokIdle
    /\ ConcIdle
    /\ MemIdle
    /\ HistIdle
    /\ TermIdle
    /\ RingIdle

NextEdit ==
    \/ \E c \in EditBytes : Len(sent) < MaxEditSent /\ embeddedCliReceiveChar(c)
    \/ embeddedCliProcess
    \/ \E name \in EditNames : AddBinding(name)

SpecEdit == InitEdit /\ [][NextEdit]_vars

---------------------------------------------------------------------------
(* Dispatch to bindings: the owner registers bindings, some of them of the *)
(* same name, some without a handler, some with tokenized arguments, before *)
(* any input arrives; the default handler is set or not                    *)

BindRxSize == 5
BindCmdSize == 6
MaxBindSent == 4
BindCapacity == 2
MaxAddCalls == 3

BindBytes == {97, SPACE, CR}

BindConfig ==
    [rxBufferSize |-> BindRxSize, cmdBufferSize |-> BindCmdSize,
     maxBindingCount |-> BindCapacity,
     cliBuffer |-> "NULL"]

\* the bindings the owner chooses from, all of them for the name "a", so
\* that "aa" is a name without a binding; context tells the registrations
\* apart
BindChoices(context) ==
    {[name |-> << 97 >>, help |-> NULLSTR, tokenizeArgs |-> FALSE,
      context |-> context, binding |-> "user"],
     [name |-> << 97 >>, help |-> NULLSTR, tokenizeArgs |-> FALSE,
      context |-> context, binding |-> "NULL"],
     [name |-> << 97 >>, help |-> NULLSTR, tokenizeArgs |-> TRUE,
      context |-> context, binding |-> "user"]}

\* embeddedCliAddBinding(cli, binding), with its result kept
AddBindingCall(binding) ==
    LET r == embeddedCliAddBinding(impl, binding) IN
    /\ ~ub
    /\ sent = << >>
    /\ Len(requested) < MaxAddCalls
    /\ impl' = r.impl
    /\ requested' = Append(requested, binding)
    /\ addOk' = Append(addOk, r.ok)
    /\ UNCHANGED << cli, commands, ub, output, observerVars, fifoVars, tokVars,
                    concVars, memVars, histVars, termVars, ringVars >>

\* the state right after embeddedCliNew(BindConfig); the owner has set
\* writeChar, and onCommand or not
InitBind ==
    /\ \E onCommand \in BOOLEAN : cli = [writeChar |-> TRUE, onCommand |-> onCommand]
    /\ impl = embeddedCliNew(BindConfig)
    /\ commands = << >>
    /\ ub = FALSE
    /\ output = << >>
    /\ sent = << >>
    /\ batchStart = 0
    /\ batchEnd = 0
    /\ recovered = FALSE
    /\ overflowed = FALSE
    /\ requested = << >>
    /\ addOk = << >>
    /\ FifoIdle
    /\ TokIdle
    /\ ConcIdle
    /\ MemIdle
    /\ HistIdle
    /\ TermIdle
    /\ RingIdle

NextBind ==
    \/ \E c \in BindBytes : Len(sent) < MaxBindSent /\ embeddedCliReceiveChar(c)
    \/ embeddedCliProcess
    \/ \E binding \in BindChoices(Len(requested) + 1) : AddBindingCall(binding)

SpecBind == InitBind /\ [][NextBind]_vars

---------------------------------------------------------------------------
(* The help command: the terminal types "help" or a part of it on every    *)
(* line; the owner may have registered a binding named "help" of its own   *)

HelpRxSize == 6
HelpCmdSize == 8
MaxHelpSent == 6
HelpCapacity == 1

HelpConfig ==
    [rxBufferSize |-> HelpRxSize, cmdBufferSize |-> HelpCmdSize,
     maxBindingCount |-> HelpCapacity,
     cliBuffer |-> "NULL"]

\* the owner's bindings named "help", with and without a handler
HelpChoices(context) ==
    {[name |-> HelpName, help |-> NULLSTR, tokenizeArgs |-> FALSE,
      context |-> context, binding |-> "user"],
     [name |-> HelpName, help |-> << 104 >>, tokenizeArgs |-> FALSE,
      context |-> context, binding |-> "NULL"]}

\* the bytes the terminal has sent on the line being typed
RECURSIVE LineTail(_)
LineTail(b) ==
    IF b = << >> \/ b[Len(b)] = CR THEN << >>
    ELSE Append(LineTail(SubSeq(b, 1, Len(b) - 1)), b[Len(b)])

Typed == LineTail(sent)

\* the bytes the terminal may send next: the end of the line, or the next
\* letter of "help"
HelpBytes ==
    {CR} \cup (IF Len(Typed) < Len(HelpName) THEN {HelpName[Len(Typed) + 1]} ELSE {})

InitHelp ==
    /\ EngineInit(HelpConfig)
    /\ FifoIdle
    /\ TokIdle
    /\ ConcIdle
    /\ MemIdle
    /\ HistIdle
    /\ TermIdle
    /\ RingIdle

NextHelp ==
    \/ \E c \in HelpBytes : Len(sent) < MaxHelpSent /\ embeddedCliReceiveChar(c)
    \/ embeddedCliProcess
    \/ \E binding \in HelpChoices(Len(requested) + 1) : AddBindingCall(binding)

SpecHelp == InitHelp /\ [][NextHelp]_vars

---------------------------------------------------------------------------
(* Byte by byte: the owner calls embeddedCliProcess before the next byte   *)
(* arrives, so that every call handles at most one byte.  The terminal     *)
(* sends a letter, a digit, control bytes and escape sequences.            *)

EscRxSize == 2
EscCmdSize == 8
MaxEscSent == 5

\* 'h', '1', ESC, '[', CR, backspace, TAB
EscBytes == {104, 49, ESC, LBRACKET, CR, BS, TAB}

EscConfig ==
    [rxBufferSize |-> EscRxSize, cmdBufferSize |-> EscCmdSize,
     maxBindingCount |-> 0,
     cliBuffer |-> "NULL"]

\* embeddedCliReceiveChar(cli, c), called when the ring is empty
ReceiveOneChar(c) ==
    /\ fifoBufAvailable(impl.rxBuffer) = 0
    /\ embeddedCliReceiveChar(c)

InitEsc ==
    /\ EngineInit(EscConfig)
    /\ FifoIdle
    /\ TokIdle
    /\ ConcIdle
    /\ MemIdle
    /\ HistIdle
    /\ TermIdle
    /\ RingIdle

NextEsc ==
    \/ \E c \in EscBytes : Len(sent) < MaxEscSent /\ ReceiveOneChar(c)
    \/ embeddedCliProcess

SpecEsc == InitEsc /\ [][NextEsc]_vars

---------------------------------------------------------------------------
(* Autocompletion: the owner registers up to two bindings out of a pool of *)
(* names that share prefixes with each other and with "help", in any       *)
(* order, before input arrives; the terminal types 'h' and 'e', TAB and CR *)
(* and the owner processes every byte as it arrives.                       *)

AutoRxSize == 2
AutoCmdSize == 9
MaxAutoSent == 4
AutoCapacity == 2

\* 'h', 'e', TAB, CR
AutoBytes == {104, 101, TAB, CR}

\* "he", "hi", "hex", "help", "helper"
AutoNames ==
    {<< 104, 101 >>, << 104, 105 >>, << 104, 101, 120 >>, HelpName,
     << 104, 101, 108, 112, 101, 114 >>}

AutoConfig ==
    [rxBufferSize |-> AutoRxSize, cmdBufferSize |-> AutoCmdSize,
     maxBindingCount |-> AutoCapacity,
     cliBuffer |-> "NULL"]

\* the binding the owner registers for a name
AutoBinding(name, context) ==
    [name |-> name, help |-> NULLSTR, tokenizeArgs |-> FALSE, context |-> context,
     binding |-> "user"]

InitAuto ==
    /\ EngineInit(AutoConfig)
    /\ FifoIdle
    /\ TokIdle
    /\ ConcIdle
    /\ MemIdle
    /\ HistIdle
    /\ TermIdle
    /\ RingIdle

NextAuto ==
    \/ \E c \in AutoBytes : Len(sent) < MaxAutoSent /\ ReceiveOneChar(c)
    \/ embeddedCliProcess
    \/ \E name \in AutoNames :
          /\ impl.bindingsCount < impl.maxBindingsCount
          /\ AddBindingCall(AutoBinding(name, Len(requested) + 1))

SpecAuto == InitAuto /\ [][NextAuto]_vars

---------------------------------------------------------------------------
(* Two contexts: embeddedCliReceiveChar is called in one (an interrupt     *)
(* handler, a thread) while embeddedCliProcess runs in the other.  Each    *)
(* update of impl->flags (flags |= bit, flags &= ~bit) is a load of the    *)
(* byte into a register and a later store of the changed register; the    *)
(* steps of the two contexts interleave.  The ring buffer calls are single *)
(* steps here; the end of the loop and the check of the overflow flag     *)
(* after it are apart.                                                     *)

ConcRxSize == 3
ConcCmdSize == 5
MaxConcSent == 4

ConcBytes == {97, ESC, LBRACKET}

ConcConfig ==
    [rxBufferSize |-> ConcRxSize, cmdBufferSize |-> ConcCmdSize,
     maxBindingCount |-> 0,
     cliBuffer |-> "NULL"]

\* embeddedCliReceiveChar(cli, c): fifoBufPush(&impl->rxBuffer, c)
ProducerPush(c) ==
    LET r == fifoBufPush(impl.rxBuffer, c) IN
    /\ ~ub
    /\ producer.pc = "idle"
    /\ impl' = [impl EXCEPT !.rxBuffer = r.buffer]
    /\ sent' = Append(sent, c)
    /\ overflowed' = (overflowed \/ ~r.ok)
    /\ producer' = IF r.ok THEN [pc |-> "idle"] ELSE [pc |-> "load"]
    /\ UNCHANGED << cli, commands, ub, output, batchStart, batchEnd, recovered,
                    fifoVars, tokVars, bindVars, memVars, histVars, termVars, ringVars, consumer, flagsMeant >>

\* SET_FLAG(impl->flags, CLI_FLAG_OVERFLOW) of embeddedCliReceiveChar: the load
ProducerLoad ==
    /\ producer.pc = "load"
    /\ producer' = [pc |-> "store", reg |-> impl.flags]
    /\ UNCHANGED << engineVars, observerVars, fifoVars, tokVars, bindVars, memVars, histVars, termVars, ringVars,
                    consumer, flagsMeant >>

\* SET_FLAG(impl->flags, CLI_FLAG_OVERFLOW) of embeddedCliReceiveChar: the store
ProducerStore ==
    /\ producer.pc = "store"
    /\ impl' = [impl EXCEPT !.flags = SET_FLAG(producer.reg, CLI_FLAG_OVERFLOW)]
    /\ flagsMeant' = SET_FLAG(flagsMeant, CLI_FLAG_OVERFLOW)
    /\ producer' = [pc |-> "idle"]
    /\ UNCHANGED << cli, commands, ub, output, observerVars, fifoVars, tokVars,
                    bindVars, memVars, histVars, termVars, ringVars, consumer >>

\* the consumer after a part of embeddedCliProcess that took it from impl to
\* s.impl: the store of the flags it changed is still to come
Deferred(s, after) ==
    IF s.impl.flags = impl.flags THEN [pc |-> after]
    ELSE [pc |-> "store", reg |-> s.impl.flags, set |-> s.impl.flags \ impl.flags,
          unset |-> impl.flags \ s.impl.flags, after |-> after]

\* embeddedCliProcess(cli) is called: the check of CLI_FLAG_INIT_COMPLETE,
\* the load for SET_FLAG and writeToOutput(cli, impl->invitation)
ConsumerEnter ==
    LET s == IF ~IS_FLAG_SET(impl.flags, CLI_FLAG_INIT_COMPLETE)
             THEN writeToOutput(
                      [cli |-> cli,
                       impl |-> [impl EXCEPT !.flags = SET_FLAG(@, CLI_FLAG_INIT_COMPLETE)],
                       commands |-> commands, ub |-> ub, out |-> << >>],
                      invitation)
             ELSE [cli |-> cli, impl |-> impl, commands |-> commands, ub |-> ub,
                   out |-> << >>]
    IN /\ ~ub
       /\ consumer.pc = "idle"
       /\ consumer' = Deferred(s, "loop")
       /\ output' = s.out
       /\ batchStart' = batchEnd
       /\ batchEnd' = Len(sent)
       /\ recovered' = IS_FLAG_SET(impl.flags, CLI_FLAG_OVERFLOW)
       /\ UNCHANGED << cli, impl, commands, ub, sent, overflowed, fifoVars, tokVars,
                       bindVars, memVars, histVars, termVars, ringVars, producer, flagsMeant >>

\* one round of the while loop of embeddedCliProcess: fifoBufPop and the
\* handling of the byte, up to the store of the flags when they change
ConsumerByte ==
    LET r == fifoBufPop(impl.rxBuffer)
        s == ProcessChar([cli |-> cli, impl |-> [impl EXCEPT !.rxBuffer = r.buffer],
                          commands |-> commands, ub |-> ub, out |-> output], r.a)
    IN /\ ~ub
       /\ consumer.pc = "loop"
       /\ fifoBufAvailable(impl.rxBuffer) # 0
       /\ impl' = [s.impl EXCEPT !.flags = impl.flags]
       /\ commands' = s.commands
       /\ ub' = s.ub
       /\ output' = s.out
       /\ consumer' = Deferred(s, "loop")
       /\ UNCHANGED << cli, observerVars, fifoVars, tokVars, bindVars, memVars, histVars, termVars, ringVars, producer,
                       flagsMeant >>

\* the while loop of embeddedCliProcess ends: fifoBufAvailable returned 0
ConsumerExit ==
    /\ consumer.pc = "loop"
    /\ fifoBufAvailable(impl.rxBuffer) = 0
    /\ consumer' = [pc |-> "discard"]
    /\ UNCHANGED << engineVars, observerVars, fifoVars, tokVars, bindVars, memVars,
                    histVars, termVars, ringVars, producer, flagsMeant >>

\* the end of embeddedCliProcess: the check of CLI_FLAG_OVERFLOW,
\* impl->cmdSize = 0 and the load for UNSET_FLAG
ConsumerDiscard ==
    LET s == DiscardOnOverflow([cli |-> cli, impl |-> impl, commands |-> commands,
                                ub |-> ub, out |-> output])
    IN /\ consumer.pc = "discard"
       /\ impl' = [s.impl EXCEPT !.flags = impl.flags]
       /\ consumer' = Deferred(s, "idle")
       /\ UNCHANGED << cli, commands, ub, output, observerVars, fifoVars, tokVars,
                       bindVars, memVars, histVars, termVars, ringVars, producer, flagsMeant >>

\* the store of a SET_FLAG or UNSET_FLAG of embeddedCliProcess
ConsumerStore ==
    /\ consumer.pc = "store"
    /\ impl' = [impl EXCEPT !.flags = consumer.reg]
    /\ flagsMeant' = (flagsMeant \cup consumer.set) \ consumer.unset
    /\ consumer' = [pc |-> consumer.after]
    /\ UNCHANGED << cli, commands, ub, output, observerVars, fifoVars, tokVars,
                    bindVars, memVars, histVars, termVars, ringVars, producer >>

InitConc ==
    /\ EngineInit(ConcConfig)
    /\ FifoIdle
    /\ TokIdle
    /\ producer = [pc |-> "idle"]
    /\ consumer = [pc |-> "idle"]
    /\ flagsMeant = impl.flags
    /\ MemIdle
    /\ HistIdle
    /\ TermIdle
    /\ RingIdle

NextConc ==
    \/ \E c \in ConcBytes : Len(sent) < MaxConcSent /\ ProducerPush(c)
    \/ ProducerLoad
    \/ ProducerStore
    \/ ConsumerEnter
    \/ ConsumerByte
    \/ ConsumerExit
    \/ ConsumerDiscard
    \/ ConsumerStore

SpecConc == InitConc /\ [][NextConc]_vars

---------------------------------------------------------------------------
(* The ring buffer on its own: any sequence of fifoBufPush and fifoBufPop  *)

FifoSize == 4

FifoBytes == {97, 98}

FifoConfig ==
    [rxBufferSize |-> FifoSize, cmdBufferSize |-> FifoSize, maxBindingCount |-> 0,
     cliBuffer |-> "NULL"]

\* fifoBufPush(&impl->rxBuffer, a)
FifoPush(a) ==
    LET r == fifoBufPush(impl.rxBuffer, a) IN
    /\ impl' = [impl EXCEPT !.rxBuffer = r.buffer]
    /\ queue' = IF Len(queue) < impl.rxBuffer.size - 1 THEN Append(queue, a) ELSE queue
    /\ fifoOp' = [op |-> "push", a |-> a, ok |-> r.ok, outstanding |-> Len(queue),
                  before |-> impl.rxBuffer, oldest |-> NULLPTR]
    /\ UNCHANGED << cli, commands, ub, output, observerVars, tokVars, bindVars, concVars,
                    memVars, histVars, termVars, ringVars >>

\* fifoBufPop(&impl->rxBuffer), called when fifoBufAvailable is not 0
FifoPop ==
    LET r == fifoBufPop(impl.rxBuffer) IN
    /\ fifoBufAvailable(impl.rxBuffer) # 0
    /\ impl' = [impl EXCEPT !.rxBuffer = r.buffer]
    /\ queue' = IF queue = << >> THEN queue ELSE Tail(queue)
    /\ fifoOp' = [op |-> "pop", a |-> r.a, ok |-> TRUE, outstanding |-> Len(queue),
                  before |-> impl.rxBuffer,
                  oldest |-> IF queue = << >> THEN NULLPTR ELSE Head(queue)]
    /\ UNCHANGED << cli, commands, ub, output, observerVars, tokVars, bindVars, concVars,
                    memVars, histVars, termVars, ringVars >>

InitFifo ==
    /\ EngineInit(FifoConfig)
    /\ FifoIdle
    /\ TokIdle
    /\ ConcIdle
    /\ MemIdle
    /\ HistIdle
    /\ TermIdle
    /\ RingIdle

NextFifo ==
    \/ \E a \in FifoBytes : FifoPush(a)
    \/ FifoPop

SpecFifo == InitFifo /\ [][NextFifo]_vars

---------------------------------------------------------------------------
(* The tokenizer and the token accessors on their own: a buffer holding a  *)
(* string, its terminator, one spare byte and guard bytes after it         *)

MaxArgsLen == 6
GuardLen == 3

TokBytes == {97, 98, SPACE}

\* '!', the byte the guard area is filled with
GuardByte == 33

\* values looked up with embeddedCliFindToken: "a", "b", "ab", ""
TokProbes == {<< 97 >>, << 98 >>, << 97, 98 >>, << >>}

RECURSIVE StringsUpTo(_, _)
StringsUpTo(S, n) ==
    IF n = 0 THEN {<< >>}
    ELSE LET shorter == StringsUpTo(S, n - 1) IN
         shorter \cup {Append(str, c) : str \in {x \in shorter : Len(x) = n - 1}, c \in S}

\* the buffer holding str, its terminator, and guard bytes from the spare byte on
TokBuffer(str) ==
    [i \in 0..(Len(str) + 1 + GuardLen) |->
        IF i < Len(str) THEN str[i + 1] ELSE IF i = Len(str) THEN NUL ELSE GuardByte]

InitTok ==
    /\ EngineInit(FifoConfig)
    /\ FifoIdle
    /\ ConcIdle
    /\ MemIdle
    /\ HistIdle
    /\ TermIdle
    /\ RingIdle
    /\ tokIn \in StringsUpTo(TokBytes, MaxArgsLen)
    /\ args = [buf |-> TokBuffer(tokIn), wr |-> {}, rd |-> {}]
    /\ tokCall = [fn |-> "none"]

\* embeddedCliTokenizeArgs(args)
TokenizeArgs ==
    /\ tokCall.fn = "none"
    /\ args' = embeddedCliTokenizeArgs(args, 0)
    /\ tokCall' = [fn |-> "embeddedCliTokenizeArgs"]
    /\ UNCHANGED << tokIn, engineVars, observerVars, fifoVars, bindVars, concVars,
                    memVars, histVars, termVars, ringVars >>

\* embeddedCliGetToken(args, pos): the token returned, NULLSTR for none
GetToken(pos) ==
    /\ tokCall.fn # "none"
    /\ tokCall' = [fn |-> "embeddedCliGetToken", pos |-> pos,
                   result |-> LET t == embeddedCliGetToken(args.buf, 0, pos) IN
                              IF t = NULLPTR THEN NULLSTR ELSE CStr(args.buf, t)]
    /\ UNCHANGED << args, tokIn, engineVars, observerVars, fifoVars, bindVars, concVars,
                    memVars, histVars, termVars, ringVars >>

\* embeddedCliGetTokenCount(args)
GetTokenCount ==
    /\ tokCall.fn # "none"
    /\ tokCall' = [fn |-> "embeddedCliGetTokenCount",
                   result |-> embeddedCliGetTokenCount(args.buf, 0)]
    /\ UNCHANGED << args, tokIn, engineVars, observerVars, fifoVars, bindVars, concVars,
                    memVars, histVars, termVars, ringVars >>

\* embeddedCliFindToken(args, token)
FindToken(token) ==
    /\ tokCall.fn # "none"
    /\ tokCall' = [fn |-> "embeddedCliFindToken", token |-> token,
                   result |-> embeddedCliFindToken(args.buf, 0, token)]
    /\ UNCHANGED << args, tokIn, engineVars, observerVars, fifoVars, bindVars, concVars,
                    memVars, histVars, termVars, ringVars >>

NextTok ==
    \/ TokenizeArgs
    \/ \E pos \in 0..(MaxArgsLen + 1) : GetToken(pos)
    \/ GetTokenCount
    \/ \E token \in TokProbes : FindToken(token)

SpecTok == InitTok /\ [][NextTok]_vars

---------------------------------------------------------------------------
(* What a byte stream means, read off the bytes alone: lines, names and    *)
(* arguments                                                               *)

IsTerminator(c) == c = CR \/ c = LF

Terminators == {<< CR >>, << LF >>, << CR, LF >>, << LF, CR >>}

Min(a, b) == IF a < b THEN a ELSE b
Max(a, b) == IF a > b THEN a ELSE b

SetMin(S) == CHOOSE x \in S : \A y \in S : x <= y
SetMax(S) == CHOOSE x \in S : \A y \in S : x >= y

\* the index of the first / last line terminator byte of b (Len(b)+1 / 0
\* when b has none)
FirstTerminator(b) ==
    SetMin({i \in 1..Len(b) : IsTerminator(b[i])} \cup {Len(b) + 1})
LastTerminator(b) ==
    SetMax({i \in 1..Len(b) : IsTerminator(b[i])} \cup {0})

\* the bytes of b before its first terminator, and the bytes from it on
LineOf(b) == SubSeq(b, 1, FirstTerminator(b) - 1)
AfterLine(b) == SubSeq(b, FirstTerminator(b), Len(b))

\* a line that holds a command: printable bytes, not all of them spaces
IsCommandLine(line) ==
    /\ \A i \in 1..Len(line) : line[i] >= 32 /\ line[i] <= 126
    /\ \E i \in 1..Len(line) : line[i] # SPACE

\* the command a line holds: the name is its first run of non-space bytes,
\* the arguments are everything after the first run of spaces that follows
\* the name (none when nothing follows)
NameAndArgs(line) ==
    LET nameStart == SetMin({i \in 1..Len(line) : line[i] # SPACE})
        nameEnd == SetMin({i \in nameStart..Len(line) :
                              i = Len(line) \/ line[i + 1] = SPACE})
        rest == {i \in (nameEnd + 1)..Len(line) : line[i] # SPACE}
    IN [name |-> SubSeq(line, nameStart, nameEnd),
        args |-> IF rest = {} THEN NULLSTR
                 ELSE SubSeq(line, SetMin(rest), Len(line))]

\* the call of the default handler expected for a line
DefaultDispatch(line) ==
    [handler |-> "onCommand", binding |-> NULLPTR,
     name |-> NameAndArgs(line).name, args |-> NameAndArgs(line).args]

\* a batch of non-empty command lines, each ended by CR, LF, CR LF or LF CR
IsLineBatch(b) ==
    /\ b # << >>
    /\ ~IsTerminator(b[1])
    /\ IsTerminator(b[Len(b)])
    /\ \A i \in 1..(Len(b) - 1) :
          IsTerminator(b[i]) /\ IsTerminator(b[i + 1]) =>
              /\ b[i] # b[i + 1]
              /\ i + 2 <= Len(b) => ~IsTerminator(b[i + 2])

\* the lines of a batch, in order
RECURSIVE SplitLines(_)
SplitLines(b) ==
    IF b = << >> THEN << >>
    ELSE LET after == AfterLine(b)
             next == SetMin({i \in 1..Len(after) : ~IsTerminator(after[i])}
                            \cup {Len(after) + 1})
         IN << LineOf(b) >> \o SplitLines(SubSeq(after, next, Len(after)))

\* the calls of the default handler expected for a batch of lines
DefaultDispatches(b) ==
    [k \in 1..Len(SplitLines(b)) |-> DefaultDispatch(SplitLines(b)[k])]

---------------------------------------------------------------------------
(* Properties of line splitting and dispatch (Spec, SpecFlood, SpecEdit)   *)

\* the bytes the ring holds, oldest first
RingContents(buffer) ==
    [k \in 1..fifoBufAvailable(buffer) |->
        buffer.buf[(buffer.front + k - 1) % buffer.size]]

\* the bytes sent since the last embeddedCliProcess call
Pending == SubSeq(sent, batchEnd + 1, Len(sent))

\* the bytes the engine has taken out of the ring so far
Processed == SubSeq(sent, 1, Len(sent) - fifoBufAvailable(impl.rxBuffer))

\* no line is being collected and no escape sequence is open
Idle ==
    /\ impl.cmdSize = 0
    /\ ~IS_FLAG_SET(impl.flags, CLI_FLAG_ESCAPE_MODE)
    /\ impl.lastChar # ESC

\* the line fits the command buffer and names no registered binding
IsUnboundLine(line) ==
    /\ IsCommandLine(line)
    /\ Len(line) <= impl.cmdMaxSize - 2
    /\ \A i \in 0..(impl.bindingsCount - 1) :
          impl.bindings[i].name # NameAndArgs(line).name

\* one line and its terminator are waiting in the ring of an idle engine
OneLinePending ==
    /\ Idle
    /\ ~IS_FLAG_SET(impl.flags, CLI_FLAG_OVERFLOW)
    /\ AfterLine(Pending) \in Terminators
    /\ IsUnboundLine(LineOf(Pending))

\* C1: with no matching binding registered, one line of a name, spaces and
\* an argument remainder followed by a line terminator makes the next
\* embeddedCliProcess call invoke the default handler exactly once, with the
\* name equal to the first run of non-space bytes and the arguments equal to
\* everything after the first run of spaces that follows the name, byte for
\* byte.
C1_SingleLineDispatch ==
    [][(OneLinePending /\ embeddedCliProcess) =>
          commands' = Append(commands, DefaultDispatch(LineOf(Pending)))]_vars

\* the only command dispatched so far came from one line whose arguments
\* hold a space and follow the name after more than one byte
C1_Witness ==
    /\ batchStart = 0
    /\ batchEnd = Len(sent)
    /\ AfterLine(sent) \in Terminators
    /\ IsCommandLine(LineOf(sent))
    /\ Len(commands) = 1
    /\ commands[1] = DefaultDispatch(LineOf(sent))
    /\ commands[1].handler = "onCommand"
    /\ commands[1].args # NULLSTR
    /\ \E i \in 1..Len(commands[1].args) : commands[1].args[i] = SPACE

\* impl after embeddedCliReceiveChar for each of the bytes, in order
RECURSIVE ReceiveAll(_, _)
ReceiveAll(im, bytes) ==
    IF bytes = << >> THEN im
    ELSE ReceiveAll(ReceiveChar(im, Head(bytes)), Tail(bytes))

\* the commands dispatched when a new engine of the same configuration, with
\* a ring large enough for the bytes, receives all of them and then processes
\* them in a single embeddedCliProcess call
SingleCall(bytes) ==
    Process([cli |-> cli,
             impl |-> ReceiveAll(
                 embeddedCliNew(
                     [rxBufferSize |-> Max(impl.rxBuffer.size, Len(bytes) + 1),
                      cmdBufferSize |-> impl.cmdMaxSize,
                      maxBindingCount |-> impl.maxBindingsCount - cliInternalBindingCount,
                      cliBuffer |-> "NULL"]),
                 bytes),
             commands |-> << >>, ub |-> FALSE, out |-> << >>]).commands

\* C2: when no receive overflow occurs, the commands dispatched so far are
\* those a single embeddedCliProcess call dispatches for the bytes processed
\* so far, wherever the embeddedCliProcess calls fell between the bytes, and
\* there are no more of them than line terminators processed.
C2_FragmentationIndependent ==
    ~overflowed =>
        /\ commands = SingleCall(Processed)
        /\ Len(commands) <=
              Cardinality({i \in 1..Len(Processed) : IsTerminator(Processed[i])})

\* a line holding a name, spaces and arguments was cut by an
\* embeddedCliProcess call in the middle of its arguments, and the call that
\* processed its terminator has dispatched it
C2_Witness ==
    /\ ~overflowed
    /\ batchEnd = Len(sent)
    /\ AfterLine(sent) \in Terminators
    /\ IsCommandLine(LineOf(sent))
    /\ NameAndArgs(LineOf(sent)).args # NULLSTR
    /\ batchStart > Len(LineOf(sent)) - Len(NameAndArgs(LineOf(sent)).args)
    /\ batchStart < Len(LineOf(sent))
    /\ commands = << DefaultDispatch(LineOf(sent)) >>

\* a batch of N command lines is waiting in the ring of an idle engine
LineBatchPending ==
    /\ Idle
    /\ ~IS_FLAG_SET(impl.flags, CLI_FLAG_OVERFLOW)
    /\ IsLineBatch(Pending)
    /\ \A k \in 1..Len(SplitLines(Pending)) : IsUnboundLine(SplitLines(Pending)[k])

\* C3: N non-empty line-terminated commands that fit the receive buffer,
\* enqueued before one embeddedCliProcess call, make that call dispatch
\* exactly N commands, in the order the lines were sent.
C3_BatchDispatchInOrder ==
    [][(LineBatchPending /\ embeddedCliProcess) =>
          /\ Len(commands') = Len(commands) + Len(SplitLines(Pending))
          /\ commands' = commands \o DefaultDispatches(Pending)]_vars

\* one call dispatched two different commands
C3_Witness ==
    /\ batchStart = 0
    /\ batchEnd = Len(sent)
    /\ IsLineBatch(sent)
    /\ Len(SplitLines(sent)) = 2
    /\ \A k \in 1..2 : IsCommandLine(SplitLines(sent)[k])
    /\ commands = DefaultDispatches(sent)
    /\ commands[1] # commands[2]

\* a line and its terminator were sent after an embeddedCliProcess call that
\* found the overflow flag set, and none of their bytes was lost
LinePendingAfterOverflow ==
    /\ recovered
    /\ ~IS_FLAG_SET(impl.flags, CLI_FLAG_OVERFLOW)
    /\ AfterLine(Pending) \in Terminators
    /\ IsUnboundLine(LineOf(Pending))

\* C4: after a receive overflow, whatever the bytes that caused it, and the
\* embeddedCliProcess call that follows it, a well-formed line that is sent
\* and processed is dispatched exactly once, with its name and arguments as
\* sent.
C4_LineAfterOverflowDispatched ==
    [][(LinePendingAfterOverflow /\ embeddedCliProcess) =>
          commands' = Append(commands, DefaultDispatch(LineOf(Pending)))]_vars

\* the bytes of the batch that the ring kept: the first size-1 of them
Stored == SubSeq(Pending, 1, Min(Len(Pending), impl.rxBuffer.size - 1))

\* the lines of the batch whose terminator the ring kept
StoredLines == SubSeq(Stored, 1, LastTerminator(Stored))

\* command lines were enqueued on an idle engine, with no processing in
\* between, until the ring overflowed
OverflowedBatchPending ==
    /\ Idle
    /\ IS_FLAG_SET(impl.flags, CLI_FLAG_OVERFLOW)
    /\ StoredLines # << >> => IsLineBatch(StoredLines)
    /\ \A k \in 1..Len(SplitLines(StoredLines)) :
          IsUnboundLine(SplitLines(StoredLines)[k])

\* C5: receive overflow never damages completed lines: when lines are
\* enqueued without processing until the ring overflows, the ring holds the
\* first size-1 bytes sent, the next embeddedCliProcess call dispatches
\* exactly the lines whose terminator is among them, in order and as sent,
\* and it ends with the unterminated line discarded (cmdSize 0) and the
\* overflow flag cleared.
C5_OverflowKeepsCompletedLines ==
    [][(OverflowedBatchPending /\ embeddedCliProcess) =>
          /\ RingContents(impl.rxBuffer) = Stored
          /\ commands' = commands \o DefaultDispatches(StoredLines)
          /\ impl'.cmdSize = 0
          /\ ~IS_FLAG_SET(impl'.flags, CLI_FLAG_OVERFLOW)]_vars

\* one more byte than the ring holds was sent before the only processing
\* call: the two complete lines were dispatched, the line in progress and
\* the lost byte were not
C5_Witness ==
    /\ recovered
    /\ batchStart = 0
    /\ batchEnd = Len(sent)
    /\ Len(sent) = impl.rxBuffer.size
    /\ ~IsTerminator(sent[Len(sent) - 1])
    /\ LastTerminator(sent) > 0
    /\ IsLineBatch(SubSeq(sent, 1, LastTerminator(sent)))
    /\ Len(commands) = 2
    /\ impl.cmdSize = 0
    /\ ~IS_FLAG_SET(impl.flags, CLI_FLAG_OVERFLOW)

\* C6: in every reachable state the buffered command length satisfies
\* cmdSize <= cmdMaxSize - 2, so the two trailing bytes reserved for the
\* tokenizer's double terminator are never occupied.
C6_CmdSizeLeavesTwoBytes == impl.cmdSize <= impl.cmdMaxSize - 2

---------------------------------------------------------------------------
(* Properties of the ring buffer (SpecFifo)                                *)

\* C7: the receive ring buffer is a FIFO queue of capacity size-1: the ring
\* holds exactly the bytes pushed and not yet popped, in push order, so
\* fifoBufAvailable is their number; fifoBufPop returns the oldest of them;
\* fifoBufPush succeeds exactly when fewer than size-1 bytes are outstanding,
\* and a failed push leaves front, back and the stored bytes as they were.
C7_RingIsFifo ==
    /\ fifoBufAvailable(impl.rxBuffer) = Len(queue)
    /\ RingContents(impl.rxBuffer) = queue
    /\ Len(queue) <= impl.rxBuffer.size - 1
    /\ fifoOp.op = "pop" => fifoOp.a = fifoOp.oldest
    /\ fifoOp.op = "push" =>
          /\ fifoOp.ok <=> fifoOp.outstanding < impl.rxBuffer.size - 1
          /\ ~fifoOp.ok => impl.rxBuffer = fifoOp.before

\* a push was refused with size-1 bytes outstanding, in a ring whose back
\* index has wrapped around behind its front index
C7_Witness ==
    /\ fifoOp.op = "push"
    /\ ~fifoOp.ok
    /\ fifoOp.outstanding = impl.rxBuffer.size - 1
    /\ impl.rxBuffer.back < impl.rxBuffer.front
    /\ \E k \in 1..(Len(queue) - 1) : queue[k] # queue[k + 1]

---------------------------------------------------------------------------
(* Properties of the tokenizer and the token accessors (SpecTok)           *)

\* the maximal runs of non-space bytes of str, in order
RECURSIVE MaximalRuns(_)
MaximalRuns(str) ==
    IF str = << >> THEN << >>
    ELSE IF Head(str) = SPACE THEN MaximalRuns(Tail(str))
    ELSE LET n == CHOOSE k \in 1..Len(str) :
                      /\ \A j \in 1..k : str[j] # SPACE
                      /\ k = Len(str) \/ str[k + 1] = SPACE
         IN << SubSeq(str, 1, n) >> \o MaximalRuns(SubSeq(str, n + 1, Len(str)))

\* the tokens laid out one after another, each followed by one null byte,
\* with one more null byte after the last (two null bytes for no token)
RECURSIVE TokenLayout(_)
TokenLayout(tokens) ==
    IF tokens = << >> THEN << NUL >>
    ELSE Head(tokens) \o << NUL >> \o TokenLayout(Tail(tokens))

ExpectedLayout(str) ==
    IF MaximalRuns(str) = << >> THEN << NUL, NUL >> ELSE TokenLayout(MaximalRuns(str))

\* C8: after embeddedCliTokenizeArgs the buffer starts with exactly the
\* maximal runs of non-space bytes of the input, in order, each followed by
\* one null byte, with one extra null byte right after the last token.
C8_TokensAreMaximalRuns ==
    tokCall.fn # "none" =>
        \A i \in 1..Len(ExpectedLayout(tokIn)) :
            args.buf[i - 1] = ExpectedLayout(tokIn)[i]

\* C9: embeddedCliTokenizeArgs writes only args[0] .. args[len+1] and reads
\* nothing beyond args[len+1]; the bytes after the spare byte are untouched.
C9_TokenizerStaysInBounds ==
    tokCall.fn # "none" =>
        /\ args.wr \subseteq 0..(Len(tokIn) + 1)
        /\ args.rd \subseteq 0..(Len(tokIn) + 1)
        /\ \A i \in DOMAIN args.buf : i > Len(tokIn) + 1 => args.buf[i] = GuardByte

\* the tokenizer wrote the spare byte and moved a token over a run of spaces
C9_Witness ==
    /\ tokCall.fn = "embeddedCliTokenizeArgs"
    /\ (Len(tokIn) + 1) \in args.wr
    /\ Len(tokIn) \in args.rd
    /\ \E i \in 1..(Len(tokIn) - 3) :
          /\ tokIn[i] # SPACE /\ tokIn[i + 1] = SPACE /\ tokIn[i + 2] = SPACE
          /\ tokIn[i + 3] # SPACE
    /\ args.buf # TokBuffer(tokIn)

\* the tokens a tokenized string holds: the null-terminated strings from
\* offset i on, up to the first empty one
RECURSIVE TokensFrom(_, _)
TokensFrom(buf, i) ==
    IF buf[i] = NUL THEN << >>
    ELSE << CStr(buf, i) >> \o TokensFrom(buf, i + strlen(buf, i) + 1)

TokensOf(buf) == TokensFrom(buf, 0)

\* C10: on a string produced by embeddedCliTokenizeArgs that holds n tokens,
\* embeddedCliGetTokenCount returns n; embeddedCliGetToken returns the k-th
\* token for 1 <= k <= n and none for position 0 and positions above n;
\* embeddedCliFindToken returns the 1-based position of the first token equal
\* to the given value, or 0 when no token equals it.
C10_AccessorsAgreeWithTokens ==
    LET tokens == TokensOf(args.buf)
        n == Len(tokens)
    IN /\ tokCall.fn = "embeddedCliGetTokenCount" => tokCall.result = n
       /\ tokCall.fn = "embeddedCliGetToken" =>
             tokCall.result = IF tokCall.pos >= 1 /\ tokCall.pos <= n
                              THEN tokens[tokCall.pos] ELSE NULLSTR
       /\ tokCall.fn = "embeddedCliFindToken" =>
             IF \E k \in 1..n : tokens[k] = tokCall.token
             THEN /\ tokCall.result \in 1..n
                  /\ tokens[tokCall.result] = tokCall.token
                  /\ \A k \in 1..(tokCall.result - 1) : tokens[k] # tokCall.token
             ELSE tokCall.result = 0

\* the last token of a string of several tokens was fetched by its position
C10_Witness ==
    /\ tokCall.fn = "embeddedCliGetToken"
    /\ tokCall.pos = Len(TokensOf(args.buf))
    /\ tokCall.pos >= 2
    /\ tokCall.result = TokensOf(args.buf)[tokCall.pos]
    /\ tokCall.result # TokensOf(args.buf)[1]


---------------------------------------------------------------------------
(* Properties of dispatch and of the registry (SpecBind, SpecHelp)         *)

\* sub occurs in seq as a run of consecutive bytes
Occurs(sub, seq) ==
    \E k \in 0..(Len(seq) - Len(sub)) : SubSeq(seq, k + 1, k + Len(sub)) = sub

\* the unknown-command notice for a name
Notice(name) == UnknownCommandPrefix \o name \o UnknownCommandSuffix \o lineBreak

\* the registry position of the first binding of that name, or NULLPTR
FirstMatch(name) ==
    LET matches == {i \in 0..(impl.bindingsCount - 1) : impl.bindings[i].name = name}
    IN IF matches = {} THEN NULLPTR ELSE SetMin(matches)

\* the tokens embeddedCliTokenizeArgs makes of an argument string that lies
\* in a buffer of its own
ArgTokens(a) ==
    IF a = NULLSTR THEN << >>
    ELSE TokenList(embeddedCliTokenizeArgs(
                       [buf |-> [k \in 0..(Len(a) + 1) |->
                                    IF k < Len(a) THEN a[k + 1] ELSE NUL],
                        wr |-> {}, rd |-> {}], 0).buf, 0)

\* one line of printable bytes that fits the command buffer, and its
\* terminator, are waiting in the ring of an idle engine
LineForDispatchPending ==
    /\ Idle
    /\ ~IS_FLAG_SET(impl.flags, CLI_FLAG_OVERFLOW)
    /\ AfterLine(Pending) \in Terminators
    /\ LineOf(Pending) # << >>
    /\ \A i \in 1..Len(LineOf(Pending)) :
          LineOf(Pending)[i] >= 32 /\ LineOf(Pending)[i] <= 126
    /\ Len(LineOf(Pending)) <= impl.cmdMaxSize - 2

\* the outcome of the embeddedCliProcess step for the pending line
DispatchOutcome ==
    LET line == LineOf(Pending) IN
    IF ~IsCommandLine(line)
    THEN commands' = commands /\ ~Occurs(UnknownCommandPrefix, output')
    ELSE LET na == NameAndArgs(line)
             i == FirstMatch(na.name)
         IN IF i # NULLPTR /\ impl.bindings[i].binding # "NULL"
            THEN /\ Len(commands') = Len(commands) + 1
                 /\ SubSeq(commands', 1, Len(commands)) = commands
                 /\ LET c == commands'[Len(commands')] IN
                       /\ c.handler = impl.bindings[i].binding
                       /\ c.binding = i
                       /\ c.context = impl.bindings[i].context
                       /\ IF impl.bindings[i].tokenizeArgs
                          THEN /\ c.tokens = ArgTokens(na.args)
                               /\ (c.args = NULLSTR) = (na.args = NULLSTR)
                          ELSE c.args = na.args
                 /\ ~Occurs(UnknownCommandPrefix, output')
            ELSE IF cli.onCommand
            THEN /\ commands' = Append(commands, DefaultDispatch(line))
                 /\ ~Occurs(UnknownCommandPrefix, output')
            ELSE /\ commands' = commands
                 /\ Occurs(Notice(na.name), output')

\* C11: a submitted line that holds a name has exactly one of three
\* outcomes: the handler of the first binding of that name in registry order
\* is invoked once with the arguments and the context of that binding, when
\* that handler is not null; otherwise the default handler, when one is set,
\* is invoked once with the untokenized name and arguments; otherwise the
\* unknown-command notice is printed and no handler runs.  A line of spaces
\* only causes no handler call and no notice.
C11_ThreeDispatchOutcomes ==
    [][(LineForDispatchPending /\ embeddedCliProcess) => DispatchOutcome]_vars

\* a line named a binding without a handler that stands before a binding of
\* the same name with a handler; no default handler is set, so the notice was
\* printed and nothing invoked
C11_Witness ==
    /\ ~cli.onCommand
    /\ impl.bindingsCount = 3
    /\ impl.bindings[1].name = impl.bindings[2].name
    /\ impl.bindings[1].binding = "NULL"
    /\ impl.bindings[2].binding = "user"
    /\ batchStart = 0
    /\ batchEnd = Len(sent)
    /\ AfterLine(sent) \in Terminators
    /\ IsCommandLine(LineOf(sent))
    /\ NameAndArgs(LineOf(sent)).name = impl.bindings[1].name
    /\ NameAndArgs(LineOf(sent)).args # NULLSTR
    /\ commands = << >>
    /\ Occurs(Notice(impl.bindings[1].name), output)

\* the invocation of the built-in help handler for the line "help"
HelpInvocation ==
    [handler |-> "onHelp", binding |-> 0, name |-> HelpName, args |-> NULLSTR,
     tokens |-> << >>, context |-> 0]

\* the line "help" and its terminator are waiting in the ring of an idle engine
HelpLinePending ==
    /\ Idle
    /\ ~IS_FLAG_SET(impl.flags, CLI_FLAG_OVERFLOW)
    /\ AfterLine(Pending) \in Terminators
    /\ LineOf(Pending) = HelpName

\* the built-in help binding is the first of the registry
HelpIsFirst ==
    /\ impl.bindingsCount >= 1
    /\ impl.bindings[0].name = HelpName
    /\ impl.bindings[0].binding = "onHelp"

\* C12: in every reachable state the built-in help binding is at registry
\* position 0, and submitting the line "help" invokes the built-in help
\* handler (which prints the list starting with " * help"), also after the
\* owner has registered a binding named "help" with another handler.
C12_HelpNeverShadowed ==
    /\ []HelpIsFirst
    /\ [][(HelpLinePending /\ embeddedCliProcess) =>
             /\ commands' = Append(commands, HelpInvocation)
             /\ Occurs(HelpItemPrefix \o HelpName \o lineBreak, output')]_vars

\* the owner registered a binding named "help" with a handler of its own,
\* then the line "help" was submitted and the built-in handler ran
C12_Witness ==
    /\ impl.bindingsCount = 2
    /\ impl.bindings[1].name = HelpName
    /\ impl.bindings[1].binding = "user"
    /\ sent = HelpName \o << CR >>
    /\ batchEnd = Len(sent)
    /\ commands = << HelpInvocation >>

\* C13: after construction embeddedCliAddBinding succeeds for exactly the
\* first maxBindingCount bindings of the owner and stores them in insertion
\* order after the built-in help binding; every further call returns false
\* and leaves the binding count and all stored bindings as they were.
C13_RegistryCapacity ==
    LET n == Len(requested)
        stored == Min(n, BindConfig.maxBindingCount)
    IN /\ Len(addOk) = n
       /\ \A k \in 1..n : addOk[k] = (k <= BindConfig.maxBindingCount)
       /\ impl.bindingsCount = cliInternalBindingCount + stored
       /\ impl.bindings[0].binding = "onHelp"
       /\ \A k \in 1..stored : impl.bindings[k] = requested[k]
       /\ \A k \in DOMAIN impl.bindings :
             k >= impl.bindingsCount => impl.bindings[k] = ZeroBinding

\* the owner filled the registry with two different bindings and a further
\* call was refused
C13_Witness ==
    /\ Len(requested) = BindConfig.maxBindingCount + 1
    /\ addOk = << TRUE, TRUE, FALSE >>
    /\ impl.bindingsCount = 3
    /\ impl.bindings[1] = requested[1]
    /\ impl.bindings[2] = requested[2]
    /\ requested[1].binding # requested[2].binding
    /\ requested[3].tokenizeArgs

---------------------------------------------------------------------------
(* Properties of the two contexts (SpecConc)                               *)

\* C14: embeddedCliReceiveChar and embeddedCliProcess share only the ring
\* buffer: the producer writes nothing but the ring, so with one producer
\* and one consumer interleaved no update of the control flags is lost, that
\* is, impl.flags always holds every flag update made so far.
C14_NoFlagUpdateLost == impl.flags = flagsMeant

---------------------------------------------------------------------------
(* Properties of the handling of single bytes (SpecEsc)                    *)

\* the command collected so far: the first cmdSize bytes of the command buffer
Command(im) == [k \in 1..im.cmdSize |-> im.cmdBuffer[k - 1]]

\* exactly one byte waits in the ring and no overflow is recorded
OneBytePending ==
    /\ fifoBufAvailable(impl.rxBuffer) = 1
    /\ ~IS_FLAG_SET(impl.flags, CLI_FLAG_OVERFLOW)

\* the byte that waits in the ring
PendingByte == RingContents(impl.rxBuffer)[1]

\* the pending byte belongs to an escape sequence: it is the '[' right after
\* ESC, or the sequence is open
InEscapeSequence ==
    \/ IS_FLAG_SET(impl.flags, CLI_FLAG_ESCAPE_MODE)
    \/ impl.lastChar = ESC /\ PendingByte = LBRACKET

\* the pending byte ends the open escape sequence
IsFinalByte ==
    /\ IS_FLAG_SET(impl.flags, CLI_FLAG_ESCAPE_MODE)
    /\ PendingByte >= 64
    /\ PendingByte <= 126

\* C15: after ESC immediately followed by '[' the engine stays in escape
\* sequence mode until the first byte in 0x40..0x7E; every byte from that
\* '[' up to and including the final byte, also CR, TAB, backspace and
\* printable bytes, leaves the collected command and cmdSize unchanged and
\* dispatches nothing; the byte after the final byte is handled in normal
\* mode again: a printable byte is appended to the command.
C15_EscapeSequenceInert ==
    [][(OneBytePending /\ embeddedCliProcess) =>
          /\ InEscapeSequence =>
                /\ impl'.cmdSize = impl.cmdSize
                /\ Command(impl') = Command(impl)
                /\ commands' = commands
                /\ IS_FLAG_SET(impl'.flags, CLI_FLAG_ESCAPE_MODE) = ~IsFinalByte
          /\ ~InEscapeSequence =>
                /\ ~IS_FLAG_SET(impl'.flags, CLI_FLAG_ESCAPE_MODE)
                /\ (isDisplayableChar(PendingByte)
                       /\ impl.cmdSize + 2 < impl.cmdMaxSize) =>
                      Command(impl') = Append(Command(impl), PendingByte)]_vars

\* "h" was typed, then ESC '[' CR 'h': the CR inside the sequence dispatched
\* nothing, the final 'h' was not added, and the sequence is closed
C15_Witness ==
    /\ sent = << 104, ESC, LBRACKET, CR, 104 >>
    /\ fifoBufAvailable(impl.rxBuffer) = 0
    /\ ~IS_FLAG_SET(impl.flags, CLI_FLAG_ESCAPE_MODE)
    /\ impl.lastChar = 104
    /\ Command(impl) = << 104 >>
    /\ commands = << >>

---------------------------------------------------------------------------
(* Properties of line terminators (Spec)                                   *)

\* the number of line terminators in a run of CR and LF bytes, when a CR
\* followed by LF, or a LF followed by CR, counts as one terminator
RECURSIVE PairedTerminators(_)
PairedTerminators(b) ==
    IF b = << >> THEN 0
    ELSE IF Len(b) >= 2 /\ b[1] # b[2]
         THEN 1 + PairedTerminators(SubSeq(b, 3, Len(b)))
         ELSE 1 + PairedTerminators(Tail(b))

\* the number of line-break echoes (CR LF) in the output
LineBreaks(out) ==
    Cardinality({k \in 1..(Len(out) - 1) : out[k] = CR /\ out[k + 1] = LF})

\* the number of prompt reprints that follow a line-break echo
PromptReprints(out) ==
    Cardinality({k \in 1..(Len(out) - 3) :
                    SubSeq(out, k, k + 3) = lineBreak \o invitation})

\* only CR and LF bytes are waiting in the ring of an engine that holds no
\* command and whose last byte was no line terminator
TerminatorsPending ==
    /\ Idle
    /\ ~IS_FLAG_SET(impl.flags, CLI_FLAG_OVERFLOW)
    /\ ~IsTerminator(impl.lastChar)
    /\ Pending # << >>
    /\ \A i \in 1..Len(Pending) : IsTerminator(Pending[i])

\* C16: an adjacent CR LF or LF CR pair acts as one line terminator, with
\* one line-break echo and one prompt reprint, repeats of the same byte act
\* as separate terminators, and so k consecutive CR LF pairs give exactly k
\* terminator events.
C16_PairsAreSingleTerminators ==
    [][(TerminatorsPending /\ embeddedCliProcess) =>
          /\ LineBreaks(output') = PairedTerminators(Pending)
          /\ PromptReprints(output') = PairedTerminators(Pending)
          /\ commands' = commands]_vars

---------------------------------------------------------------------------
(* Properties of autocompletion (SpecAuto)                                 *)

\* text is a prefix of name
IsPrefix(text, name) ==
    Len(text) <= Len(name) /\ SubSeq(name, 1, Len(text)) = text

\* the registry positions of the bindings whose name has the collected
\* command as a prefix
Candidates ==
    {i \in 0..(impl.bindingsCount - 1) :
        IsPrefix(Command(impl), impl.bindings[i].name)}

\* a TAB waits in the ring of an engine that is collecting a command in
\* normal mode
TabPending ==
    /\ OneBytePending
    /\ PendingByte = TAB
    /\ ~IS_FLAG_SET(impl.flags, CLI_FLAG_ESCAPE_MODE)
    /\ impl.cmdSize > 0

\* C17: when exactly one binding has the non-empty collected command as a
\* prefix of its name (and the name, a space and a terminator fit the
\* command buffer), a TAB makes the collected command that name followed by
\* one space, cmdSize being the name length + 1; the bytes typed before the
\* TAB are its beginning, unchanged.
C17_TabCompletesUniqueCandidate ==
    [][(TabPending /\ Cardinality(Candidates) = 1 /\ embeddedCliProcess) =>
          LET name == impl.bindings[CHOOSE i \in Candidates : TRUE].name IN
          Len(name) + 2 <= impl.cmdMaxSize =>
              /\ impl'.cmdSize = Len(name) + 1
              /\ Command(impl') = Append(name, SPACE)
              /\ SubSeq(Command(impl'), 1, impl.cmdSize) = Command(impl)]_vars

\* with "hi" registered, "he" has the single candidate "help", and TAB made
\* the collected command "help "
C17_Witness ==
    /\ impl.bindingsCount = 2
    /\ impl.bindings[1].name = << 104, 105 >>
    /\ sent = << 104, 101, TAB >>
    /\ fifoBufAvailable(impl.rxBuffer) = 0
    /\ impl.cmdSize = 5
    /\ Command(impl) = Append(HelpName, SPACE)

\* the names of the candidates
CandidateNames == {impl.bindings[i].name : i \in Candidates}

\* the length of the longest common prefix of a set of names
CommonPrefixLen(names) ==
    SetMax({n \in 0..SetMin({Len(name) : name \in names}) :
               \A a \in names, b \in names : SubSeq(a, 1, n) = SubSeq(b, 1, n)})

\* the longest common prefix of the candidates
CommonPrefix ==
    SubSeq(CHOOSE name \in CandidateNames : TRUE, 1, CommonPrefixLen(CandidateNames))

\* C18: when two or more bindings have the collected command as a prefix of
\* their names, the shared length computed by getAutocompletedCommand is the
\* length of the longest common prefix of all candidate names, whatever the
\* names and their registry order; when it exceeds the collected length, a
\* TAB extends the collected command to exactly that common prefix, with no
\* trailing space.
C18_TabExtendsToCommonPrefix ==
    /\ [](impl.cmdSize > 0 /\ Cardinality(Candidates) >= 2 =>
             getAutocompletedCommand(impl, Command(impl)).cmd.autocompletedLen
                 = CommonPrefixLen(CandidateNames))
    /\ [][(TabPending /\ Cardinality(Candidates) >= 2
              /\ CommonPrefixLen(CandidateNames) > impl.cmdSize
              /\ CommonPrefixLen(CandidateNames) + 1 <= impl.cmdMaxSize
              /\ embeddedCliProcess) =>
             /\ impl'.cmdSize = CommonPrefixLen(CandidateNames)
             /\ Command(impl') = CommonPrefix]_vars

\* with "helper" and "hex" registered after "help", "h" and TAB gave "he",
\* shorter than the shortest candidate
C18_Witness ==
    /\ impl.bindingsCount = 3
    /\ impl.bindings[1].name = << 104, 101, 108, 112, 101, 114 >>
    /\ impl.bindings[2].name = << 104, 101, 120 >>
    /\ sent = << 104, TAB >>
    /\ fifoBufAvailable(impl.rxBuffer) = 0
    /\ Command(impl) = << 104, 101 >>
    /\ Cardinality(Candidates) = 3

\* a TAB waits in the ring of an engine in normal mode
TabPendingAnyLength ==
    /\ OneBytePending
    /\ PendingByte = TAB
    /\ ~IS_FLAG_SET(impl.flags, CLI_FLAG_ESCAPE_MODE)
    /\ IS_FLAG_SET(impl.flags, CLI_FLAG_INIT_COMPLETE)

\* the candidates of a completion request: none while nothing is typed
TabCandidates == IF impl.cmdSize = 0 THEN {} ELSE Candidates

\* the names of the candidates from registry position i on, one per line
RECURSIVE CandidateLines(_)
CandidateLines(i) ==
    IF i >= impl.bindingsCount THEN << >>
    ELSE (IF i \in Candidates THEN impl.bindings[i].name \o lineBreak ELSE << >>)
         \o CandidateLines(i + 1)

\* the prompt and the collected command
Redraw == invitation \o Command(impl)

\* the bytes that blank the current line: CR, a space for every column of
\* the prompt and of the line shown, CR
Erase ==
    << CR >> \o [k \in 1..(Len(invitation) + impl.inputLineLength) |-> SPACE]
             \o << CR >>

\* C19: a TAB with no candidate, or with two or more candidates whose longest
\* common prefix is already fully typed, leaves the collected command and
\* cmdSize unchanged; in the second case the line is blanked, the names of
\* exactly the bindings that have the collected command as a prefix are
\* printed one per line in registry order, and the prompt and the collected
\* command are drawn again (twice: by the request and by the live preview).
C19_TabWithoutProgress ==
    [][(TabPendingAnyLength /\ embeddedCliProcess) =>
          /\ TabCandidates = {} =>
                impl'.cmdSize = impl.cmdSize /\ Command(impl') = Command(impl)
          /\ (Cardinality(TabCandidates) >= 2
                /\ CommonPrefixLen(CandidateNames) = impl.cmdSize) =>
                /\ impl'.cmdSize = impl.cmdSize
                /\ Command(impl') = Command(impl)
                /\ output' = Erase \o CandidateLines(0) \o Redraw
                                \o << CR >> \o Redraw]_vars

\* with "hi" and "hex" registered, "he" and TAB listed "help" and "hex", not
\* "hi", and left "he" collected
C19_Witness ==
    /\ impl.bindingsCount = 3
    /\ impl.bindings[1].name = << 104, 105 >>
    /\ impl.bindings[2].name = << 104, 101, 120 >>
    /\ sent = << 104, 101, TAB >>
    /\ fifoBufAvailable(impl.rxBuffer) = 0
    /\ Command(impl) = << 104, 101 >>
    /\ Occurs(HelpName \o lineBreak \o << 104, 101, 120 >> \o lineBreak
                  \o invitation \o << 104, 101 >>, output)

---------------------------------------------------------------------------
\* the engine as printLiveAutocompletion leaves it when called in this state
AfterPreview ==
    printLiveAutocompletion([cli |-> cli, impl |-> impl, commands |-> commands,
                             ub |-> ub, out |-> << >>])

\* a preview is displayed: the line on the terminal is longer than the
\* collected command
PreviewDisplayed == impl.inputLineLength > impl.cmdSize

\* a line terminator waits in the ring of an engine in normal mode
TerminatorPending ==
    /\ OneBytePending
    /\ IsTerminator(PendingByte)
    /\ ~IS_FLAG_SET(impl.flags, CLI_FLAG_ESCAPE_MODE)

\* the step submitted the collected command and nothing else: no handler runs
\* for a line without a name, otherwise one handler runs, chosen by and
\* given the name the collected command holds
SubmitsCollected ==
    LET line == Command(impl) IN
    IF ~IsCommandLine(line)
    THEN commands' = commands
    ELSE LET na == NameAndArgs(line) IN
         /\ Len(commands') = Len(commands) + 1
         /\ SubSeq(commands', 1, Len(commands)) = commands
         /\ LET c == commands'[Len(commands')] IN
               /\ c.name = na.name
               /\ c.binding = FirstMatch(na.name)
               /\ (c.args = NULLSTR) = (na.args = NULLSTR)

\* a printable byte that the command buffer has room for waits in the ring
\* of an engine in normal mode
CharPending ==
    /\ OneBytePending
    /\ isDisplayableChar(PendingByte)
    /\ ~InEscapeSequence
    /\ impl.cmdSize + 2 < impl.cmdMaxSize

\* C20: printLiveAutocompletion changes neither cmdSize nor any of the first
\* cmdSize bytes of the command buffer, in whatever state it is called; the
\* step that handles a typed byte, preview included, adds that byte and
\* nothing else to the collected command; and a line terminator handled
\* while a preview is displayed submits the collected command, made of the
\* bytes typed or committed by TAB, not the line shown.
C20_PreviewIsVisualOnly ==
    /\ [](~ub => /\ AfterPreview.impl.cmdSize = impl.cmdSize
                 /\ Command(AfterPreview.impl) = Command(impl)
                 /\ AfterPreview.commands = commands)
    /\ [][(CharPending /\ embeddedCliProcess) =>
            Command(impl') = Append(Command(impl), PendingByte)]_vars
    /\ [][(TerminatorPending /\ PreviewDisplayed /\ embeddedCliProcess) =>
            SubmitsCollected]_vars

\* with "he" registered, 'h' showed the preview "he"; the CR that followed
\* submitted "h", which went to the default handler
C20_Witness ==
    /\ impl.bindingsCount = 2
    /\ impl.bindings[1].name = << 104, 101 >>
    /\ sent = << 104, CR >>
    /\ fifoBufAvailable(impl.rxBuffer) = 0
    /\ commands = << DefaultDispatch(<< 104 >>) >>
    /\ impl.cmdSize = 0

---------------------------------------------------------------------------
(* Asynchronous print: the owner registers at most one binding before     *)
(* input arrives, the terminal types, the owner processes at any time (so *)
(* the ring can overflow) and prints a message between processing calls.  *)

PrintRxSize == 3
PrintCmdSize == 6
MaxPrintSent == 4
PrintCapacity == 1

\* 'h', 'i', CR
PrintBytes == {104, 105, CR}

\* "hi", "hip"
PrintNames == {<< 104, 105 >>, << 104, 105, 112 >>}

\* "m"
PrintMessages == {<< 109 >>}

PrintConfig ==
    [rxBufferSize |-> PrintRxSize, cmdBufferSize |-> PrintCmdSize,
     maxBindingCount |-> PrintCapacity,
     cliBuffer |-> "NULL"]

\* embeddedCliPrint(cli, string)
embeddedCliPrintCall(string) ==
    /\ ~ub
    /\ LET s == embeddedCliPrint([cli |-> cli, impl |-> impl, commands |-> commands,
                                  ub |-> ub, out |-> << >>], string)
       IN impl' = s.impl /\ commands' = s.commands /\ ub' = s.ub
          /\ output' = s.out
    /\ UNCHANGED << cli, sent, batchStart, batchEnd, recovered, overflowed,
                    fifoVars, tokVars, bindVars, concVars, memVars, histVars, termVars, ringVars >>

InitPrint ==
    /\ EngineInit(PrintConfig)
    /\ FifoIdle
    /\ TokIdle
    /\ ConcIdle
    /\ MemIdle
    /\ HistIdle
    /\ TermIdle
    /\ RingIdle

NextPrint ==
    \/ \E c \in PrintBytes : Len(sent) < MaxPrintSent /\ embeddedCliReceiveChar(c)
    \/ embeddedCliProcess
    \/ \E name \in PrintNames :
          /\ impl.bindingsCount < impl.maxBindingsCount
          /\ AddBindingCall(AutoBinding(name, Len(requested) + 1))
    \/ \E string \in PrintMessages : embeddedCliPrintCall(string)

SpecPrint == InitPrint /\ [][NextPrint]_vars

---------------------------------------------------------------------------
\* the live preview of the collected command: what the longest common prefix
\* of the candidates adds to it
Preview ==
    IF TabCandidates = {} THEN << >>
    ELSE SubSeq(CommonPrefix, impl.cmdSize + 1, Len(CommonPrefix))

\* the bytes that draw the preview and put the cursor back behind the
\* collected command
PreviewDrawn ==
    IF TabCandidates = {} THEN << >> ELSE Preview \o << CR >> \o Redraw

\* what embeddedCliPrint(string) is to do in this state: the line is
\* blanked, the message and a line break are written, the prompt, the
\* collected command and the preview are drawn again, and the collected
\* command and the length of the line shown are as before
PrintRestores(string) ==
    /\ impl'.cmdSize = impl.cmdSize
    /\ Command(impl') = Command(impl)
    /\ output' = Erase \o string \o lineBreak \o Redraw \o PreviewDrawn
    /\ impl'.inputLineLength = impl.inputLineLength

\* C21: embeddedCliPrint called between processing calls leaves cmdSize and
\* the collected command unchanged, writes the message and a line break,
\* redraws the prompt, the collected command and the live preview, and leaves
\* inputLineLength equal to its value before the call.
C21_PrintRestoresEditingState ==
    [][\A string \in PrintMessages :
          embeddedCliPrintCall(string) => PrintRestores(string)]_vars

\* the same, for calls made when the line shown is the collected command
\* and its preview (no byte was lost since the line was drawn)
C21_PrintRestoresDrawnLine ==
    [][\A string \in PrintMessages :
          (embeddedCliPrintCall(string)
             /\ impl.inputLineLength = impl.cmdSize + Len(Preview)) =>
          PrintRestores(string)]_vars

---------------------------------------------------------------------------
(* Construction: embeddedCliNew carves one memory block, malloc'ed or     *)
(* supplied by the caller as config->cliBuffer, into regions.  Offsets    *)
(* are counted in bytes from the start of the block; sizes are those of a *)
(* build with 8-byte pointers.                                            *)

\* sizeof(EmbeddedCli), sizeof(EmbeddedCliImpl), sizeof(CliCommandBinding)
sizeofEmbeddedCli == 32
sizeofEmbeddedCliImpl == 88
sizeofCliCommandBinding == 40

\* uint16_t embeddedCliRequiredSize(EmbeddedCliConfig *config): the sum is
\* computed in size_t and returned as uint16_t
embeddedCliRequiredSize(config) ==
    LET bindingCount == Uint16(config.maxBindingCount + cliInternalBindingCount) IN
    Uint16(sizeofEmbeddedCli + sizeofEmbeddedCliImpl
           + config.rxBufferSize
           + config.cmdBufferSize
           + config.historyBufferSize
           + bindingCount * sizeofCliCommandBinding
           + bindingCount)

\* a faulty check that accepts a block one byte short
BlockTooSmallOffByOne(config, totalSize) == config.cliBufferSize + 1 < totalSize

\* "config->cliBufferSize < totalSize" of embeddedCliNew
BlockTooSmall(config, totalSize) == config.cliBufferSize < totalSize

\* a pointer that is neither NULL nor known to point into the block
WILDPTR == 0 - 2

\* the fields of EmbeddedCli and EmbeddedCliImpl embeddedCliNew assigns, in
\* the order of its assignments (offsets from the start of the block)
AssignedFields ==
    << [name |-> "_impl", at |-> 24, len |-> 8],
       [name |-> "rxBuffer.buf", at |-> 56, len |-> 8],
       [name |-> "cmdBuffer", at |-> 72, len |-> 8],
       [name |-> "bindings", at |-> 88, len |-> 8],
       [name |-> "bindingsFlags", at |-> 96, len |-> 8],
       [name |-> "rxBuffer.size", at |-> 68, len |-> 2],
       [name |-> "rxBuffer.front", at |-> 64, len |-> 2],
       [name |-> "rxBuffer.back", at |-> 66, len |-> 2],
       [name |-> "cmdMaxSize", at |-> 82, len |-> 2],
       [name |-> "bindingsCount", at |-> 104, len |-> 2],
       [name |-> "maxBindingsCount", at |-> 106, len |-> 2],
       [name |-> "lastChar", at |-> 108, len |-> 1],
       [name |-> "invitation", at |-> 32, len |-> 8] >>

\* the fields embeddedCliNew leaves to memset(buf, 0, totalSize)
UnassignedFields ==
    { [name |-> "writeChar", at |-> 0, len |-> 8],
      [name |-> "onCommand", at |-> 8, len |-> 8],
      [name |-> "appContext", at |-> 16, len |-> 8],
      [name |-> "history.buf", at |-> 40, len |-> 8],
      [name |-> "history.bufferSize", at |-> 48, len |-> 2],
      [name |-> "history.itemsCount", at |-> 50, len |-> 2],
      [name |-> "cmdSize", at |-> 80, len |-> 2],
      [name |-> "inputLineLength", at |-> 110, len |-> 2],
      [name |-> "flags", at |-> 112, len |-> 1] }

\* the byte at offset k after memset(buf, 0, totalSize); held[k] is the byte
\* the memory at offset k held before the call
ByteAfterMemset(k, totalSize, held) == IF k < totalSize THEN 0 ELSE held[k]

\* a uint16_t field at offset at after the memset (low byte first)
Field16AfterMemset(at, totalSize, held) ==
    ByteAfterMemset(at, totalSize, held)
      + (UINT8_MAX + 1) * ByteAfterMemset(at + 1, totalSize, held)

\* a pointer field at offset at after the memset
PointerAfterMemset(at, totalSize, held) ==
    IF \A k \in at..(at + 7) : ByteAfterMemset(k, totalSize, held) = 0
    THEN NULLPTR
    ELSE WILDPTR

\* the part of embeddedCliNew after the block is found: the block of
\* blockSize bytes, whose memory held the bytes held (a function of the
\* offset, over the control structures), is zeroed over totalSize bytes,
\* the regions are laid out one after the other, the fields are assigned,
\* and the help binding is stored when the table has room for it.  The
\* fields that are not assigned (impl->history among them) are zero where
\* the memset reached them and keep what the memory held where it did not.
\* cliBuffer is config->cliBuffer after the call
CarveBlock(config, blockSize, held) ==
    LET bindingCount == Uint16(config.maxBindingCount + cliInternalBindingCount)
        totalSize == embeddedCliRequiredSize(config)
        allocated == config.cliBuffer = "NULL"
        rxAt == sizeofEmbeddedCli + sizeofEmbeddedCliImpl
        cmdAt == rxAt + config.rxBufferSize
        bindingsAt == cmdAt + config.cmdBufferSize
        flagsAt == bindingsAt + bindingCount * sizeofCliCommandBinding
        flagsLeft == ByteAfterMemset(112, totalSize, held)
        stores == << [at |-> 0, len |-> totalSize] >>
                  \o [k \in 1..5 |-> [at |-> AssignedFields[k].at,
                                      len |-> AssignedFields[k].len]]
                  \o (IF allocated THEN << [at |-> 112, len |-> 1] >> ELSE << >>)
                  \o [k \in 1..8 |-> [at |-> AssignedFields[k + 5].at,
                                      len |-> AssignedFields[k + 5].len]]
                  \o (IF bindingCount = 0 THEN << >>
                      ELSE << [at |-> bindingsAt, len |-> sizeofCliCommandBinding],
                              [at |-> 104, len |-> 2] >>)
    IN [call |-> "embeddedCliNew", handle |-> TRUE, size |-> blockSize,
        cliBuffer |-> IF allocated THEN "malloced" ELSE config.cliBuffer,
        control |-> [at |-> 0, len |-> rxAt],
        rxBuffer |-> [at |-> rxAt, len |-> config.rxBufferSize],
        cmdBuffer |-> [at |-> cmdAt, len |-> config.cmdBufferSize],
        bindings |-> [at |-> bindingsAt, len |-> bindingCount * sizeofCliCommandBinding],
        bindingsFlags |-> [at |-> flagsAt, len |-> bindingCount],
        history |-> [at |-> PointerAfterMemset(40, totalSize, held),
                     len |-> Field16AfterMemset(48, totalSize, held)],
        itemsCount |-> Field16AfterMemset(50, totalSize, held),
        cmdSize |-> Field16AfterMemset(80, totalSize, held),
        inputLineLength |-> Field16AfterMemset(110, totalSize, held),
        flags |-> IF allocated /\ (flagsLeft \div CLI_FLAG_ALLOCATED) % 2 = 0
                  THEN flagsLeft + CLI_FLAG_ALLOCATED
                  ELSE flagsLeft,
        left |-> {f.name : f \in {g \in UnassignedFields : g.at + g.len > totalSize}},
        stores |-> stores,
        ub |-> \E k \in 1..Len(stores) : stores[k].at + stores[k].len > blockSize]

\* embeddedCliNew returned NULL before touching any block; config->cliBuffer
\* is as it was (NULL after a failed malloc)
NoHandle(config) ==
    [call |-> "embeddedCliNew", handle |-> FALSE, cliBuffer |-> config.cliBuffer,
     stores |-> << >>, ub |-> FALSE]

\* the outcomes of EmbeddedCli *embeddedCliNew(EmbeddedCliConfig *config) when
\* the memory of the block (the supplied one, or the one malloc returns)
\* holds the bytes held; malloc may fail
embeddedCliNewOutcomes(config, held) ==
    LET totalSize == embeddedCliRequiredSize(config) IN
    IF config.cliBuffer = "NULL"
    THEN {NoHandle(config), CarveBlock(config, totalSize, held)}
    ELSE IF BlockTooSmall(config, totalSize)
    THEN {NoHandle(config)}
    ELSE {CarveBlock(config, config.cliBufferSize, held)}

\* EmbeddedCliConfig *embeddedCliDefaultConfig(void): the configuration it
\* returns
embeddedCliDefaultConfig ==
    [rxBufferSize |-> 64, cmdBufferSize |-> 64, historyBufferSize |-> 128,
     maxBindingCount |-> 8, cliBuffer |-> "NULL", cliBufferSize |-> 0]

\* void embeddedCliFree(EmbeddedCli *cli) on the handle of the block b made
\* from config: free(cli) when impl->flags has CLI_FLAG_ALLOCATED, which is
\* undefined unless malloc returned the block
embeddedCliFree(b, config) ==
    LET freed == (b.flags \div CLI_FLAG_ALLOCATED) % 2 = 1 IN
    [call |-> "embeddedCliFree", freed |-> freed,
     ub |-> b.ub \/ (freed /\ config.cliBuffer # "malloced")]

\* the capacities tried for each region: none, small, and large enough for
\* the sum to pass 65535 (with 65375 the sum reaches 65536 and beyond, which
\* wraps to less than the size of the control structures)
MemRxSizes == {0, 3, 40000, 65375}
MemCmdSizes == {0, 4, 30000}
MemHistorySizes == {0, 8}
MemBindingCounts == {0, 1, UINT16_MAX}

\* how far the size of a supplied block is from the required size
MemSlack == 1

\* what the memory of the block holds before the call: byte k holds
\* (step * k + start) mod 256
MemContentSteps == {0, 1, 7}
MemContentStarts == {0, 3, 85, 170}

MemContents ==
    {[k \in 0..(sizeofEmbeddedCli + sizeofEmbeddedCliImpl - 1) |->
         (step * k + start) % (UINT8_MAX + 1)] :
       step \in MemContentSteps, start \in MemContentStarts}

\* the capacities of the configurations tried, those of the default
\* configuration among them
MemShapes ==
    [rxBufferSize : MemRxSizes, cmdBufferSize : MemCmdSizes,
     historyBufferSize : MemHistorySizes, maxBindingCount : MemBindingCounts]
    \cup {[rxBufferSize |-> embeddedCliDefaultConfig.rxBufferSize,
            cmdBufferSize |-> embeddedCliDefaultConfig.cmdBufferSize,
            historyBufferSize |-> embeddedCliDefaultConfig.historyBufferSize,
            maxBindingCount |-> embeddedCliDefaultConfig.maxBindingCount]}

\* the sizes of a supplied block tried for a configuration
MemBlockSizes(shape) ==
    {n \in (embeddedCliRequiredSize(shape) - MemSlack)
              ..(embeddedCliRequiredSize(shape) + MemSlack) :
        n >= 0 /\ n <= UINT16_MAX} \cup {0, UINT16_MAX}

\* the configurations: no block (malloc) or a block of some size
MemConfigs ==
    {[rxBufferSize |-> shape.rxBufferSize, cmdBufferSize |-> shape.cmdBufferSize,
      historyBufferSize |-> shape.historyBufferSize,
      maxBindingCount |-> shape.maxBindingCount,
      cliBuffer |-> "NULL", cliBufferSize |-> 0] : shape \in MemShapes}
    \cup
    UNION {{[rxBufferSize |-> shape.rxBufferSize, cmdBufferSize |-> shape.cmdBufferSize,
             historyBufferSize |-> shape.historyBufferSize,
             maxBindingCount |-> shape.maxBindingCount,
             cliBuffer |-> "supplied", cliBufferSize |-> n] :
               n \in MemBlockSizes(shape)} : shape \in MemShapes}

\* the owner has filled a configuration in; the memory of the block holds
\* some bytes
InitMem ==
    /\ EngineInit(FifoConfig)
    /\ FifoIdle
    /\ TokIdle
    /\ ConcIdle
    /\ HistIdle
    /\ TermIdle
    /\ RingIdle
    /\ cfg \in MemConfigs
    /\ \E held \in MemContents : block = [call |-> "none", held |-> held]

\* embeddedCliDefaultConfig(): the owner takes the default configuration
DefaultConfigCall ==
    /\ block.call = "none"
    /\ cfg # embeddedCliDefaultConfig
    /\ cfg' = embeddedCliDefaultConfig
    /\ UNCHANGED << block, engineVars, observerVars, fifoVars, tokVars, bindVars,
                    concVars, histVars, termVars, ringVars >>

\* embeddedCliNew(&cfg); a malloc'ed block is stored in cfg.cliBuffer
NewCall ==
    /\ block.call = "none"
    /\ block' \in embeddedCliNewOutcomes(cfg, block.held)
    /\ cfg' = [cfg EXCEPT !.cliBuffer = block'.cliBuffer]
    /\ UNCHANGED << engineVars, observerVars, fifoVars, tokVars, bindVars,
                    concVars, histVars, termVars, ringVars >>

\* embeddedCliNewDefault(): embeddedCliNew(embeddedCliDefaultConfig())
NewDefaultCall ==
    /\ block.call = "none"
    /\ block' \in embeddedCliNewOutcomes(embeddedCliDefaultConfig, block.held)
    /\ cfg' = [embeddedCliDefaultConfig EXCEPT !.cliBuffer = block'.cliBuffer]
    /\ UNCHANGED << engineVars, observerVars, fifoVars, tokVars, bindVars,
                    concVars, histVars, termVars, ringVars >>

\* embeddedCliFree(cli) on the handle embeddedCliNew returned
FreeCall ==
    /\ block.call = "embeddedCliNew"
    /\ block.handle
    /\ block' = embeddedCliFree(block, cfg)
    /\ UNCHANGED << cfg, engineVars, observerVars, fifoVars, tokVars, bindVars,
                    concVars, histVars, termVars, ringVars >>

NextMem ==
    \/ DefaultConfigCall
    \/ NewCall
    \/ NewDefaultCall
    \/ FreeCall

SpecMem == InitMem /\ [][NextMem]_vars

---------------------------------------------------------------------------
\* the regions of the block
RegionNames ==
    {"control", "rxBuffer", "cmdBuffer", "bindings", "bindingsFlags", "history"}

\* the capacity the configuration asks for each region
ConfiguredLen(region) ==
    CASE region = "control" -> sizeofEmbeddedCli + sizeofEmbeddedCliImpl
      [] region = "rxBuffer" -> cfg.rxBufferSize
      [] region = "cmdBuffer" -> cfg.cmdBufferSize
      [] region = "bindings" ->
            (cfg.maxBindingCount + cliInternalBindingCount) * sizeofCliCommandBinding
      [] region = "bindingsFlags" -> cfg.maxBindingCount + cliInternalBindingCount
      [] region = "history" -> cfg.historyBufferSize

\* the region has its configured capacity and, unless that is 0, lies inside
\* the block
RegionInBlock(region) ==
    /\ block[region].len = ConfiguredLen(region)
    /\ block[region].len > 0 =>
          /\ block[region].at >= 0
          /\ block[region].at + block[region].len <= block.size

\* two regions share no byte
RegionsApart(r1, r2) ==
    \/ block[r1].at + block[r1].len <= block[r2].at
    \/ block[r2].at + block[r2].len <= block[r1].at

\* embeddedCliNew was called and returned a handle
HandleReturned == block.call = "embeddedCliNew" /\ block.handle

\* C22: whenever embeddedCliNew returns a handle, the control state, the
\* receive ring, the command buffer, the binding table, the binding flag
\* table and the history buffer each have a range of their configured
\* capacity inside the block (inside cliBufferSize for a supplied block), and
\* no two ranges overlap, for every configuration.
C22_RegionsWithinBlock ==
    HandleReturned =>
        /\ \A region \in RegionNames : RegionInBlock(region)
        /\ \A r1 \in RegionNames : \A r2 \in RegionNames \ {r1} :
              RegionsApart(r1, r2)

\* the same for the five regions the code lays out, in configurations whose
\* sizes add up to at most 65535; the bytes kept for the history lie behind
\* the flag table, inside the block
C22_RegionsWhenSizeFits ==
    (/\ HandleReturned
     /\ cfg.maxBindingCount < UINT16_MAX
     /\ sizeofEmbeddedCli + sizeofEmbeddedCliImpl + cfg.rxBufferSize
          + cfg.cmdBufferSize + cfg.historyBufferSize
          + (cfg.maxBindingCount + 1) * (sizeofCliCommandBinding + 1) <= UINT16_MAX) =>
        /\ \A region \in RegionNames \ {"history"} : RegionInBlock(region)
        /\ \A r1 \in RegionNames \ {"history"} : \A r2 \in RegionNames \ {"history", r1} :
              RegionsApart(r1, r2)
        /\ block.bindingsFlags.at + block.bindingsFlags.len + cfg.historyBufferSize
              <= block.size
        /\ ~block.ub

---------------------------------------------------------------------------
\* embeddedCliNew was called with a block supplied by the caller
SuppliedBlockTried == block.call = "embeddedCliNew" /\ cfg.cliBuffer = "supplied"

\* C23: embeddedCliNew with a caller-supplied block smaller than the size
\* embeddedCliRequiredSize reports for the same configuration returns no
\* handle and stores nothing in the block; with a block at least that large
\* it returns a handle.
C23_SmallBlockRejectedUntouched ==
    SuppliedBlockTried =>
        IF cfg.cliBufferSize < embeddedCliRequiredSize(cfg)
        THEN ~block.handle /\ block.stores = << >>
        ELSE block.handle

\* a block one byte short of the required size was refused
C23_Witness ==
    /\ SuppliedBlockTried
    /\ cfg.cliBufferSize = embeddedCliRequiredSize(cfg) - 1
    /\ cfg.rxBufferSize = 3 /\ cfg.cmdBufferSize = 4
    /\ ~block.handle
    /\ block.stores = << >>

---------------------------------------------------------------------------
(* The history on its own: a CliHistory whose buffer holds its items, the *)
(* most recent first, each ended by NUL, and zero bytes behind them; any  *)
(* sequence of historyPut and historyGet calls.                           *)

HistSize == 6

\* (uint8_t) x
Uint8(x) == x % (UINT8_MAX + 1)

\* static const char *historyGet(CliHistory *history, uint16_t item): the
\* offset of the item in history->buf, NULLPTR for NULL
historyGet(h, item) ==
    IF item = 0 \/ item > h.itemsCount THEN NULLPTR
    ELSE embeddedCliGetToken(h.buf, 0, Uint8(item))

\* the bytes of history->buf after "memmove(&buf[len + 1], buf, usedSize)",
\* made when moved is TRUE, and "memcpy(buf, str, len + 1)"
HistoryStore(h, str, usedSize, moved) ==
    LET len == Len(str) IN
    [k \in DOMAIN h.buf |->
        IF k < len THEN str[k + 1]
        ELSE IF k = len THEN NUL
        ELSE IF moved /\ k < len + 1 + usedSize THEN h.buf[k - len - 1]
        ELSE h.buf[k]]

\* the outcomes of "strlen(item)" for item = NULL, undefined behaviour: the
\* call ends in a fault, or address 0 is readable and what is found there
\* leaves historyPut enough free space to go on
NullItemOutcomes(h, str) ==
    {[returned |-> "fault", history |-> h, ub |-> TRUE],
     [returned |-> "true",
      history |-> [h EXCEPT !.buf = HistoryStore(h, str, 0, FALSE)],
      ub |-> TRUE]}

\* the loop "remove old items if new one can't fit into buffer" of
\* historyPut and the two copies behind it
RECURSIVE HistoryPutLoop(_, _)
HistoryPutLoop(h, str) ==
    LET item == historyGet(h, h.itemsCount) IN
    IF item = NULLPTR THEN NullItemOutcomes(h, str)
    ELSE LET itemLen == strlen(h.buf, item)
             usedSize == item + itemLen + 1
             freeSpace == h.bufferSize - usedSize
         IN IF freeSpace >= Len(str) + 1
            THEN {[returned |-> "true",
                   history |-> [h EXCEPT !.buf = HistoryStore(h, str, usedSize,
                                                             h.itemsCount > 0)],
                   ub |-> FALSE]}
            ELSE HistoryPutLoop([h EXCEPT !.itemsCount = @ - 1], str)

\* the outcomes of static bool historyPut(CliHistory *history, const char *str)
historyPut(h, str) ==
    IF h.bufferSize < Len(str) + 1
    THEN {[returned |-> "false", history |-> h, ub |-> FALSE]}
    ELSE HistoryPutLoop(h, str)

\* the items a history starts with: "a", "b", "ab"
HistItems == {<< 97 >>, << 98 >>, << 97, 98 >>}

\* the strings put: the items, and "a", "aa", ... up to one letter more than
\* the buffer can take
HistStrings == HistItems \cup {[k \in 1..n |-> 97] : n \in 1..HistSize}

\* the bytes of a list of items, each ended by NUL
RECURSIVE ItemBytes(_)
ItemBytes(items) ==
    IF items = << >> THEN << >>
    ELSE Head(items) \o << NUL >> \o ItemBytes(Tail(items))

\* the history that holds the items, most recent first
HistoryOf(items) ==
    [buf |-> [k \in 0..(HistSize - 1) |->
                 IF k < Len(ItemBytes(items)) THEN ItemBytes(items)[k + 1] ELSE NUL],
     bufferSize |-> HistSize,
     itemsCount |-> Len(items)]

\* the lists of up to three items that fit the buffer
HistLists ==
    {items \in {<< >>} \cup [1..1 -> HistItems] \cup [1..2 -> HistItems]
                 \cup [1..3 -> HistItems] :
        Len(ItemBytes(items)) <= HistSize}

InitHist ==
    /\ EngineInit(FifoConfig)
    /\ FifoIdle
    /\ TokIdle
    /\ ConcIdle
    /\ MemIdle
    /\ TermIdle
    /\ RingIdle
    /\ \E items \in HistLists : history = HistoryOf(items)
    /\ histCall = [fn |-> "none"]

\* historyPut(&history, str); nothing is called after a fault
HistPut(str) ==
    /\ ~(histCall.fn = "historyPut" /\ histCall.returned = "fault")
    /\ \E r \in historyPut(history, str) :
          /\ history' = r.history
          /\ histCall' = [fn |-> "historyPut", str |-> str, before |-> history,
                          returned |-> r.returned, ub |-> r.ub]
    /\ UNCHANGED << engineVars, observerVars, fifoVars, tokVars, bindVars, concVars,
                    memVars, termVars, ringVars >>

\* historyGet(&history, item): the item returned, NULLSTR for NULL
HistGet(item) ==
    /\ ~(histCall.fn = "historyPut" /\ histCall.returned = "fault")
    /\ histCall' = [fn |-> "historyGet", item |-> item,
                    result |-> LET at == historyGet(history, item) IN
                               IF at = NULLPTR THEN NULLSTR ELSE CStr(history.buf, at)]
    /\ UNCHANGED << history, engineVars, observerVars, fifoVars, tokVars, bindVars,
                    concVars, memVars, termVars, ringVars >>

NextHist ==
    \/ \E str \in HistStrings : HistPut(str)
    \/ \E item \in 0..(HistSize + 1) : HistGet(item)

SpecHist == InitHist /\ [][NextHist]_vars

---------------------------------------------------------------------------
\* the entries historyGet returns for the ranks 1 to itemsCount
EntriesOf(h) ==
    [k \in 1..h.itemsCount |->
        LET at == historyGet(h, k) IN
        IF at = NULLPTR THEN NULLSTR ELSE CStr(h.buf, at)]

\* the most recent entries that fit in room bytes, each with its terminator
Survivors(entries, room) ==
    SubSeq(entries, 1,
           SetMax({n \in 0..Len(entries) :
                      Len(ItemBytes(SubSeq(entries, 1, n))) <= room}))

\* the last call was historyPut of a string whose footprint fits the buffer
FittingPutMade ==
    /\ histCall.fn = "historyPut"
    /\ Len(histCall.str) + 1 <= histCall.before.bufferSize

\* C24: historyPut of a string whose footprint (length + 1) fits the
\* capacity returns true, from any history including the empty one; the
\* entries are then the new string followed by the previous entries, most
\* recent first, without those oldest ones that no longer fit; historyGet(1)
\* is the new string, and historyGet is none for rank 0 and for the rank
\* behind the last entry.
C24_PutKeepsMostRecentFirst ==
    FittingPutMade =>
        /\ histCall.returned = "true"
        /\ EntriesOf(history) =
              << histCall.str >>
                 \o Survivors(EntriesOf(histCall.before),
                              history.bufferSize - Len(histCall.str) - 1)
        /\ historyGet(history, 0) = NULLPTR
        /\ historyGet(history, history.itemsCount + 1) = NULLPTR

\* what does hold: a string is refused, and the history left as it was,
\* exactly when its footprint exceeds the capacity; after a put that returns
\* true historyGet(1) is the new string provided the count is not 0; and
\* historyGet is none for rank 0 and for every rank above itemsCount
C24_PutAndGetAsCoded ==
    /\ histCall.fn = "historyPut" =>
          /\ (histCall.returned = "false") =
                (Len(histCall.str) + 1 > histCall.before.bufferSize)
          /\ histCall.returned = "false" => history = histCall.before
          /\ (histCall.returned = "true" /\ history.itemsCount > 0) =>
                EntriesOf(history)[1] = histCall.str
    /\ (histCall.fn = "historyGet"
          /\ (histCall.item = 0 \/ histCall.item > history.itemsCount)) =>
          histCall.result = NULLSTR

---------------------------------------------------------------------------
\* C25: token positions of embeddedCliGetToken count from 0: on a tokenized
\* string with n tokens, position i returns the (i+1)-th token for
\* 0 <= i < n and none for position n.
C25_TokenPositionsFromZero ==
    LET tokens == TokensOf(args.buf)
        n == Len(tokens)
    IN (tokCall.fn = "embeddedCliGetToken" /\ tokCall.pos <= n) =>
          tokCall.result = IF tokCall.pos < n THEN tokens[tokCall.pos + 1]
                           ELSE NULLSTR

---------------------------------------------------------------------------
(* The terminal: every byte given to writeChar goes to a terminal that    *)
(* keeps its current line and a cursor.  A printable byte is put at the   *)
(* cursor, which moves right; CR moves the cursor to the first column, BS *)
(* one column to the left; LF opens a new empty line.  The line does not  *)
(* wrap.  The owner registers at most one binding before input arrives    *)
(* and processes at any time, so the ring can overflow.                   *)

TermRxSize == 3
TermCmdSize == 6
MaxTermSent == 4
TermCapacity == 1

\* 'h', 'i', BS, TAB, CR
TermBytes == {104, 105, BS, TAB, CR}

TermConfig ==
    [rxBufferSize |-> TermRxSize, cmdBufferSize |-> TermCmdSize,
     maxBindingCount |-> TermCapacity,
     cliBuffer |-> "NULL"]

\* the largest member of a non-empty set of numbers
Largest(S) == CHOOSE m \in S : \A x \in S : x <= m

\* the terminal after a run of bytes.  The cursor moves one column to the
\* right with a printable byte and one to the left, if it is not in the first
\* column, with BS; so its column after byte k is the largest of the moves
\* since the last CR and of the moves since each later byte.  The line keeps,
\* in each column, the last printable byte put there since the last LF.
Render(scr, bytes) ==
    LET n == Len(bytes)
        moved == [k \in 1..n |->
                    Cardinality({i \in 1..k : isDisplayableChar(bytes[i])})
                    - Cardinality({i \in 1..k : bytes[i] = BS})] \o << >>
        Moves(j, k) == (IF k = 0 THEN 0 ELSE moved[k])
                       - (IF j = 0 THEN 0 ELSE moved[j])
        LastOf(c, k) == Largest({0} \cup {i \in 1..k : bytes[i] = c})
        ColAfter(k) ==
            LET p == LastOf(CR, k)
            IN Largest({(IF p = 0 THEN scr.col ELSE 0) + Moves(p, k)}
                       \cup {Moves(j, k) : j \in (p + 1)..k})
        before == [k \in 1..n |-> ColAfter(k - 1)] \o << >>
        q == LastOf(LF, n)
        kept == IF q = 0 THEN scr.line ELSE << >>
        puts == {i \in (q + 1)..n : isDisplayableChar(bytes[i])}
        width == Largest({Len(kept)} \cup {before[i] + 1 : i \in puts})
    IN [line |-> [m \in 1..width |->
                    LET here == {i \in puts : before[i] = m - 1}
                    IN IF here # {} THEN bytes[Largest(here)]
                       ELSE IF m <= Len(kept) THEN kept[m] ELSE SPACE] \o << >>,
        col |-> ColAfter(n)]

\* embeddedCliProcess(cli), with the terminal receiving what it writes
ProcessOnTerminal ==
    /\ ~ub
    /\ LET s == Process([cli |-> cli, impl |-> impl, commands |-> commands,
                         ub |-> ub, out |-> << >>])
       IN impl' = s.impl /\ commands' = s.commands /\ ub' = s.ub
          /\ output' = s.out
          /\ screen' = Render(screen, output')
    /\ batchStart' = batchEnd
    /\ batchEnd' = Len(sent)
    /\ recovered' = IS_FLAG_SET(impl.flags, CLI_FLAG_OVERFLOW)
    /\ UNCHANGED << cli, sent, overflowed, fifoVars, tokVars, bindVars, concVars,
                    memVars, histVars, ringVars >>

InitTerm ==
    /\ EngineInit(TermConfig)
    /\ FifoIdle
    /\ TokIdle
    /\ ConcIdle
    /\ MemIdle
    /\ HistIdle
    /\ screen = [line |-> << >>, col |-> 0]
    /\ RingIdle

NextTerm ==
    \/ \E c \in TermBytes : Len(sent) < MaxTermSent /\ embeddedCliReceiveChar(c)
    \/ ProcessOnTerminal
    \/ \E name \in PrintNames :
          /\ impl.bindingsCount < impl.maxBindingsCount
          /\ AddBindingCall(AutoBinding(name, Len(requested) + 1))

SpecTerm == InitTerm /\ [][NextTerm]_vars

---------------------------------------------------------------------------
\* a line without the spaces at its end
RECURSIVE Visible(_)
Visible(line) ==
    IF line # << >> /\ line[Len(line)] = SPACE
    THEN Visible(SubSeq(line, 1, Len(line) - 1))
    ELSE line

\* the terminal shows the prompt, the collected command and its preview, and
\* nothing else, with the cursor behind the collected command
ScreenShowsEdit ==
    /\ Visible(screen.line) = Visible(invitation \o Command(impl) \o Preview)
    /\ screen.col = Len(invitation) + impl.cmdSize

\* C26: after embeddedCliProcess has returned, for any received bytes and
\* processing calls, receive overflow included, the current line of the
\* terminal shows exactly the prompt, the collected command and the live
\* preview, with no stale characters behind them, and the cursor is right
\* behind the collected command.
C26_ScreenShowsPromptCommandPreview ==
    (IS_FLAG_SET(impl.flags, CLI_FLAG_INIT_COMPLETE) /\ ~ub) => ScreenShowsEdit

\* the same as long as no received byte was lost
C26_ScreenWithoutOverflow ==
    (IS_FLAG_SET(impl.flags, CLI_FLAG_INIT_COMPLETE) /\ ~ub /\ ~overflowed) =>
        ScreenShowsEdit

---------------------------------------------------------------------------
(* Two contexts at the ring: embeddedCliReceiveChar runs in one context    *)
(* while embeddedCliProcess runs in the other.  Every read and write of     *)
(* front, of back and of a slot of buf made by fifoBufPush,                 *)
(* fifoBufAvailable and fifoBufPop is one step, and so are the load and the *)
(* store of each update of impl->flags; the steps of the two contexts       *)
(* interleave.  Each context keeps what it has read in its own registers.   *)

RingSize == 3
MaxRingSent == 4

RingBytes == {97, 98}

RingConfig ==
    [rxBufferSize |-> RingSize, cmdBufferSize |-> RingSize, maxBindingCount |-> 0,
     cliBuffer |-> "NULL"]

\* a faulty test of fifoBufPush that finds room in a full ring
RoomLeftAlways(newBack, front) == TRUE

\* fifoBufPush: newBack != buffer->front
RoomLeft(newBack, front) == newBack # front

\* embeddedCliReceiveChar(cli, a) is called and calls
\* fifoBufPush(&impl->rxBuffer, a): buffer->back is read for newBack
PushReadBack(a) ==
    /\ ~ub
    /\ producer.pc = "idle"
    /\ Len(sent) < MaxRingSent
    /\ sent' = Append(sent, a)
    /\ producer' = [pc |-> "front", a |-> a,
                    newBack |-> (impl.rxBuffer.back + 1) % impl.rxBuffer.size]
    /\ UNCHANGED << engineVars, batchStart, batchEnd, recovered, overflowed, fifoVars,
                    tokVars, bindVars, consumer, flagsMeant, memVars, histVars,
                    termVars, ringVars >>

\* fifoBufPush: buffer->front is read and compared with newBack; when they
\* are equal the call returns false and embeddedCliReceiveChar goes on to
\* SET_FLAG(impl->flags, CLI_FLAG_OVERFLOW)
PushReadFront ==
    LET room == RoomLeft(producer.newBack, impl.rxBuffer.front) IN
    /\ producer.pc = "front"
    /\ producer' = IF room THEN [producer EXCEPT !.pc = "slot"] ELSE [pc |-> "load"]
    /\ overflowed' = (overflowed \/ ~room)
    /\ UNCHANGED << engineVars, sent, batchStart, batchEnd, recovered, fifoVars,
                    tokVars, bindVars, consumer, flagsMeant, memVars, histVars,
                    termVars, ringVars >>

\* fifoBufPush: buffer->buf[buffer->back] = a
PushStore ==
    /\ producer.pc = "slot"
    /\ impl' = [impl EXCEPT !.rxBuffer.buf[impl.rxBuffer.back] = producer.a]
    /\ producer' = [producer EXCEPT !.pc = "publish"]
    /\ UNCHANGED << cli, commands, ub, output, observerVars, fifoVars, tokVars,
                    bindVars, consumer, flagsMeant, memVars, histVars, termVars,
                    ringVars >>

\* fifoBufPush: buffer->back = newBack, and the call returns true;
\* embeddedCliReceiveChar returns
PushPublish ==
    /\ producer.pc = "publish"
    /\ impl' = [impl EXCEPT !.rxBuffer.back = producer.newBack]
    /\ pushed' = Append(pushed, producer.a)
    /\ producer' = [pc |-> "idle"]
    /\ UNCHANGED << cli, commands, ub, output, observerVars, fifoVars, tokVars,
                    bindVars, consumer, flagsMeant, memVars, histVars, termVars,
                    popped >>

\* fifoBufAvailable(&impl->rxBuffer) is called by the loop of
\* embeddedCliProcess: buffer->back is read and compared with buffer->front
AvailableCompare ==
    /\ consumer.pc = "loop"
    /\ consumer' = [pc |-> "available",
                    ahead |-> impl.rxBuffer.back >= impl.rxBuffer.front]
    /\ UNCHANGED << engineVars, observerVars, fifoVars, tokVars, bindVars, producer,
                    flagsMeant, memVars, histVars, termVars, ringVars >>

\* fifoBufAvailable: buffer->back is read again for the uint16_t returned;
\* the loop calls fifoBufPop when it is not 0 and ends when it is
AvailableReturn ==
    LET buffer == impl.rxBuffer
        available == IF consumer.ahead
                     THEN Uint16(buffer.back - buffer.front)
                     ELSE Uint16(buffer.size - buffer.front + buffer.back)
    IN /\ consumer.pc = "available"
       /\ consumer' = IF available # 0 THEN [pc |-> "pop"] ELSE [pc |-> "discard"]
       /\ UNCHANGED << engineVars, observerVars, fifoVars, tokVars, bindVars,
                       producer, flagsMeant, memVars, histVars, termVars, ringVars >>

\* fifoBufPop: buffer->front and buffer->back are read and compared; the
\* call returns '\0' when they are equal
PopCompare ==
    /\ consumer.pc = "pop"
    /\ IF impl.rxBuffer.front # impl.rxBuffer.back
       THEN consumer' = [pc |-> "load"] /\ popped' = popped
       ELSE consumer' = [pc |-> "handle", a |-> NUL] /\ popped' = Append(popped, NUL)
    /\ UNCHANGED << engineVars, observerVars, fifoVars, tokVars, bindVars, producer,
                    flagsMeant, memVars, histVars, termVars, pushed >>

\* fifoBufPop: a = buffer->buf[buffer->front]
PopLoad ==
    /\ consumer.pc = "load"
    /\ consumer' = [pc |-> "advance", a |-> impl.rxBuffer.buf[impl.rxBuffer.front]]
    /\ UNCHANGED << engineVars, observerVars, fifoVars, tokVars, bindVars, producer,
                    flagsMeant, memVars, histVars, termVars, ringVars >>

\* fifoBufPop: buffer->front = (buffer->front + 1) % buffer->size, and the
\* call returns a
PopAdvance ==
    /\ consumer.pc = "advance"
    /\ impl' = [impl EXCEPT !.rxBuffer.front = (@ + 1) % impl.rxBuffer.size]
    /\ popped' = Append(popped, consumer.a)
    /\ consumer' = [pc |-> "handle", a |-> consumer.a]
    /\ UNCHANGED << cli, commands, ub, output, observerVars, fifoVars, tokVars,
                    bindVars, producer, flagsMeant, memVars, histVars, termVars,
                    pushed >>

\* the rest of a round of the while loop of embeddedCliProcess: the handling
\* of the byte fifoBufPop returned, up to the store of the flags when they
\* change
HandlePopped ==
    LET s == ProcessChar([cli |-> cli, impl |-> impl, commands |-> commands,
                          ub |-> ub, out |-> output], consumer.a)
    IN /\ ~ub
       /\ consumer.pc = "handle"
       /\ impl' = [s.impl EXCEPT !.flags = impl.flags]
       /\ commands' = s.commands
       /\ ub' = s.ub
       /\ output' = s.out
       /\ consumer' = Deferred(s, "loop")
       /\ UNCHANGED << cli, observerVars, fifoVars, tokVars, bindVars, memVars,
                       histVars, termVars, ringVars, producer, flagsMeant >>

InitRing ==
    /\ EngineInit(RingConfig)
    /\ FifoIdle
    /\ TokIdle
    /\ producer = [pc |-> "idle"]
    /\ consumer = [pc |-> "idle"]
    /\ flagsMeant = impl.flags
    /\ MemIdle
    /\ HistIdle
    /\ TermIdle
    /\ RingIdle

\* embeddedCliReceiveChar: the steps of fifoBufPush, then the load and the
\* store of SET_FLAG after a refused push.  embeddedCliProcess: the start of
\* the call, the steps of fifoBufAvailable and fifoBufPop, the handling of
\* the byte, the end of the call, and the stores of its flag updates
NextRing ==
    \/ \E a \in RingBytes : PushReadBack(a)
    \/ PushReadFront
    \/ PushStore
    \/ PushPublish
    \/ ProducerLoad
    \/ ProducerStore
    \/ ConsumerEnter
    \/ AvailableCompare
    \/ AvailableReturn
    \/ PopCompare
    \/ PopLoad
    \/ PopAdvance
    \/ HandlePopped
    \/ ConsumerDiscard
    \/ ConsumerStore

SpecRing == InitRing /\ [][NextRing]_vars

---------------------------------------------------------------------------
\* the bytes in the ring, oldest first: the slots from front up to back
RingHeld ==
    LET buffer == impl.rxBuffer
        count == (buffer.back + buffer.size - buffer.front) % buffer.size
    IN [k \in 1..count |-> buffer.buf[(buffer.front + k - 1) % buffer.size]]

\* C27: with one context in fifoBufPush and the other in fifoBufAvailable and
\* fifoBufPop, their reads and writes of front, back and the slots
\* interleaved in any order, the bytes popped followed by the bytes held in
\* the ring are at every moment the bytes whose push returned true, in push
\* order; every pop returns the oldest accepted byte not popped before, so
\* no byte is lost, duplicated or read before it was written.
C27_PoppedOnceInPushOrder ==
    /\ [](pushed = popped \o RingHeld)
    /\ [](consumer.pc = "advance" => consumer.a = pushed[Len(popped) + 1])
    /\ [][popped' # popped =>
            /\ Len(popped) < Len(pushed)
            /\ popped' = Append(popped, pushed[Len(popped) + 1])]_vars

\* the ring has wrapped, two bytes were popped, and a pop has loaded its
\* byte while a push stands between storing its byte and moving back
C27_Witness ==
    /\ Len(popped) >= 2
    /\ impl.rxBuffer.back < impl.rxBuffer.front
    /\ producer.pc = "publish"
    /\ consumer.pc = "advance"

---------------------------------------------------------------------------
(* Line terminators byte by byte: the terminal sends a letter, both line   *)
(* terminators, backspace and the bytes of escape sequences, and the owner *)
(* calls embeddedCliProcess before the next byte arrives, so that the      *)
(* engine is seen between any two processed bytes.                         *)

PairRxSize == 2
PairCmdSize == 6
MaxPairSent == 5

\* 'h', CR, LF, backspace, ESC, '['
PairBytes == {104, CR, LF, BS, ESC, LBRACKET}

PairConfig ==
    [rxBufferSize |-> PairRxSize, cmdBufferSize |-> PairCmdSize,
     maxBindingCount |-> 0,
     cliBuffer |-> "NULL"]

InitPair ==
    /\ EngineInit(PairConfig)
    /\ FifoIdle
    /\ TokIdle
    /\ ConcIdle
    /\ MemIdle
    /\ HistIdle
    /\ TermIdle
    /\ RingIdle

NextPair ==
    \/ \E c \in PairBytes : Len(sent) < MaxPairSent /\ ReceiveOneChar(c)
    \/ embeddedCliProcess

SpecPair == InitPair /\ [][NextPair]_vars

\* C28: between any two processed bytes, when the engine is outside escape
\* mode and the last processed byte is CR or LF, the command buffer is empty
\* (cmdSize = 0); so a CR or LF processed outside escape mode while the
\* command buffer is not empty is never ignored by the pairing rule: it ends
\* the line, the command is dispatched and the buffer is emptied.
C28_TerminatorLeavesCommandEmpty ==
    /\ []((~IS_FLAG_SET(impl.flags, CLI_FLAG_ESCAPE_MODE)
           /\ IsTerminator(impl.lastChar)) => impl.cmdSize = 0)
    /\ [][(TerminatorPending /\ impl.cmdSize > 0 /\ embeddedCliProcess) =>
            /\ Len(commands') = Len(commands) + 1
            /\ impl'.cmdSize = 0]_vars

\* "h", CR and LF were processed outside escape mode: the line was dispatched
\* at CR, and LF, the last processed byte, was ignored
C28_Witness ==
    /\ sent = << 104, CR, LF >>
    /\ fifoBufAvailable(impl.rxBuffer) = 0
    /\ impl.lastChar = LF
    /\ ~IS_FLAG_SET(impl.flags, CLI_FLAG_ESCAPE_MODE)
    /\ Len(commands) = 1
    /\ impl.cmdSize = 0

=======================================================================
